---- MODULE Spec2Model ----
(***************************************************************************)
(* Runtime capability / degradation core of nextjs-production-starter:     *)
(*   - capability resolution      src/lib/features.ts and its two variants *)
(*   - environment validation     src/lib/env.ts and its mandatory variant *)
(*   - scheduled-task endpoint    app/api/cron/route.ts                    *)
(*   - health aggregation         src/app/api/health/route.ts and variant  *)
(*   - Redis-backed cache handler src/cache-handler.mjs                    *)
(*   - authentication wiring     lib/auth, lib/auth/config, auth route     *)
(* Strings of the program are TLA+ strings; an environment value is a      *)
(* record [def, str], def = FALSE standing for JavaScript's undefined.     *)
(***************************************************************************)
EXTENDS Integers, Sequences, FiniteSets, TLC

VARIABLES
    env,            \* process.env: variable name -> [def, str]
    variant,        \* which variant of the lib files is deployed
    loaded,         \* lib/features has been evaluated (module import)
    features,       \* the object exported by lib/features
    strategyOut,    \* last result of getAuthStrategy(), "none" before a call
    providersOut,   \* last result of getEnabledProviders()
    providersCalled,\* getEnabledProviders() has been called
    envState,       \* lib/env import: "unloaded", "ok" or "throw"
    cronCalls,      \* requests handled by the cron route so far
    cronHeader,     \* Authorization header of the last cron request
    cronMethod,     \* method of the last cron request
    cronStatus,     \* HTTP status of the last cron response, 0 before any
    taskRuns,       \* executions of the cron task logic so far
    cronLastRuns,   \* executions of the task logic during the last request
    prisma,         \* lib/db module singleton: "null" or "client"
    dbExport,       \* the `db` export of lib/db: "unloaded", "null" or "client"
    canConstruct,   \* whether constructing the Prisma client succeeds in this deployment
    clientsCreated, \* database clients constructed so far
    dbServer,       \* the database server: "up", "down", "absent" or "hang"
    redisServer,    \* the cache backend: "up" or "down"
    hpc,            \* health GET: "idle", "probe" (awaiting $queryRaw) or "done"
    hstatus,        \* the status object being built by health GET
    hhttp,          \* HTTP status of the health response, 0 before it is sent
    hprobe,         \* outcome of the database probe of this check: "none", "ok" or "fail"
    constructed,    \* the CustomCacheHandler constructor has run
    redis,          \* this.redis: "null" or "client"
    redisEnabled,   \* this.redisEnabled
    store,          \* contents of the remote backend: key -> [present, text, ttl]
    wire,           \* commands handed to the client and not yet answered, oldest first
    call,           \* per request: the cache operation it is suspended in
    res,            \* how the cache operation that ended last ended
    rt,             \* observer of a set(k, v) directly followed by get(k)
    req,            \* per request: the context, tags and tag its cache call was made with
    tagged,         \* key -> the tags the entry now stored under it was written with
    inval,          \* observer of the revalidateTag(tag) that completed last
    authRoute,      \* the auth route module: "unloaded", "notConfigured" or "handler"
    authConfig,     \* the lib/auth/config module: its state and the exported authConfig
    nextAuthCalls,  \* calls of NextAuth(authConfig) so far
    authImporter,   \* the page that imported lib/auth first, "none" before
    authResp,       \* the last auth route response: method, status (0 before any), body
    conn,           \* status of the ioredis connection: "none", "connecting", "ready",
                    \* "reconnecting" or "end"
    retryAttempts,  \* the client's retry counter, the argument of retryStrategy
    attempts,       \* reconnect attempts started since construction or the last connect
    delays,         \* the delays retryStrategy returned since construction or the last connect
    lastEvent,      \* the event the client emitted last: "none", "connect" or "error"
    dbCalls,        \* calls of getDb() made by consumers so far
    dbRet           \* what the last getDb() call returned, "none" before any

featVars == <<loaded, features, strategyOut, providersOut, providersCalled>>
cronVars == <<envState, cronCalls, cronHeader, cronMethod, cronStatus, taskRuns, cronLastRuns>>
dbVars == <<prisma, dbExport, canConstruct, clientsCreated, dbServer, redisServer>>
healthVars == <<hpc, hstatus, hhttp, hprobe>>
tagVars == <<req, tagged, inval>>
cacheVars == <<constructed, redis, redisEnabled, store, wire, call, res, rt, tagVars>>
authVars == <<authRoute, authConfig, nextAuthCalls, authImporter, authResp>>
connVars == <<conn, retryAttempts, attempts, delays, lastEvent>>
dbCallVars == <<dbCalls, dbRet>>

-----------------------------------------------------------------------------
(* JavaScript values of process.env and their truthiness *)

Undefined == [def |-> FALSE, str |-> ""]
Str(s) == [def |-> TRUE, str |-> s]

\* truthiness of a string | undefined value: undefined and "" are falsy
Truthy(v) == v.def /\ v.str # ""

\* a && b : the left operand when it is falsy, the right one otherwise
JsAnd(a, b) == IF Truthy(a) THEN b ELSE a

\* a || b : the left operand when it is truthy, the right one otherwise
JsOr(a, b) == IF Truthy(a) THEN a ELSE b

\* !!v
ToBool(v) == Truthy(v)

\* `${v}` : template-literal conversion of a string | undefined value
Template(v) == IF v.def THEN v.str ELSE "undefined"

\* the keys of envSchema
EnvNames == {"NODE_ENV", "NEXTAUTH_SECRET", "NEXTAUTH_URL", "DATABASE_URL", "REDIS_URL",
             "CRON_SECRET", "GITHUB_ID", "GITHUB_SECRET", "GOOGLE_ID", "GOOGLE_SECRET",
             "DISCORD_ID", "DISCORD_SECRET"}

\* the variables of process.env the program reads
ProcessEnvNames == EnvNames \cup {"RAILWAY_PUBLIC_DOMAIN"}

\* secrets of 31, 32 and 33 characters around the minimum length of env.ts
Secret31 == "0123456789abcdef0123456789abcde"
Secret32 == "0123456789abcdef0123456789abcdef"
Secret33 == "0123456789abcdef0123456789abcdefg"

Variants == {"snapshot", "getter", "mandatory"}
Optional(v) == v \in {"snapshot", "getter"}

-----------------------------------------------------------------------------
(* Capability resolver: lib/features *)

\* !!(process.env.X_ID && process.env.X_SECRET)
ProviderCapabilityEither(id, secret) == ToBool(JsOr(id, secret))
providerCapability(id, secret) == ToBool(JsAnd(id, secret))

\* the features object of the persistence-optional variants
featuresOptional(e) ==
    [auth            |-> ToBool(e["NEXTAUTH_SECRET"]),
     database        |-> ToBool(e["DATABASE_URL"]),
     redis           |-> ToBool(e["REDIS_URL"]),
     githubProvider  |-> providerCapability(e["GITHUB_ID"], e["GITHUB_SECRET"]),
     googleProvider  |-> providerCapability(e["GOOGLE_ID"], e["GOOGLE_SECRET"]),
     discordProvider |-> providerCapability(e["DISCORD_ID"], e["DISCORD_SECRET"])]

\* the features object of the persistence-mandatory variant: no database, no redis key
featuresMandatory(e) ==
    [auth            |-> ToBool(e["NEXTAUTH_SECRET"]),
     githubProvider  |-> providerCapability(e["GITHUB_ID"], e["GITHUB_SECRET"]),
     googleProvider  |-> providerCapability(e["GOOGLE_ID"], e["GOOGLE_SECRET"]),
     discordProvider |-> providerCapability(e["DISCORD_ID"], e["DISCORD_SECRET"])]

\* What a read of `features` yields: the snapshot variant froze the values when
\* the module was evaluated, the getter variants read process.env on each access.
Features(v, snap, e) ==
    CASE v = "snapshot"  -> snap
      [] v = "getter"    -> featuresOptional(e)
      [] v = "mandatory" -> featuresMandatory(e)

\* features.database ? 'database' : 'jwt'
GetAuthStrategyInverted(f) == IF f.database THEN "jwt" ELSE "database"
getAuthStrategyOptional(f) == IF f.database THEN "database" ELSE "jwt"

\* the persistence-mandatory variant: return 'database'
getAuthStrategyMandatory == "database"

getAuthStrategy(v, f) ==
    IF v = "mandatory" THEN getAuthStrategyMandatory ELSE getAuthStrategyOptional(f)

\* providers.push(...) three times, in source order
GetEnabledProvidersDiscordFirst(f) ==
    LET p0 == <<>>
        p1 == IF f.discordProvider THEN Append(p0, "discord") ELSE p0
        p2 == IF f.githubProvider  THEN Append(p1, "github")  ELSE p1
        p3 == IF f.googleProvider  THEN Append(p2, "google")  ELSE p2
    IN p3
getEnabledProviders(f) ==
    LET p0 == <<>>
        p1 == IF f.githubProvider  THEN Append(p0, "github")  ELSE p0
        p2 == IF f.googleProvider  THEN Append(p1, "google")  ELSE p1
        p3 == IF f.discordProvider THEN Append(p2, "discord") ELSE p2
    IN p3

\* import of lib/features
LoadFeatures ==
    /\ ~loaded
    /\ loaded' = TRUE
    /\ features' = IF variant = "snapshot" THEN featuresOptional(env) ELSE features
    /\ UNCHANGED <<connVars, dbCallVars, authVars, env, variant, strategyOut, providersOut, providersCalled>>
    /\ UNCHANGED <<cronVars, dbVars, healthVars, cacheVars>>

CallGetAuthStrategy ==
    /\ loaded
    /\ strategyOut' = getAuthStrategy(variant, Features(variant, features, env))
    /\ UNCHANGED <<connVars, dbCallVars, authVars, env, variant, loaded, features, providersOut, providersCalled>>
    /\ UNCHANGED <<cronVars, dbVars, healthVars, cacheVars>>

CallGetEnabledProviders ==
    /\ loaded
    /\ providersOut' = getEnabledProviders(Features(variant, features, env))
    /\ providersCalled' = TRUE
    /\ UNCHANGED <<connVars, dbCallVars, authVars, env, variant, loaded, features, strategyOut>>
    /\ UNCHANGED <<cronVars, dbVars, healthVars, cacheVars>>

FeatIdle ==
    /\ loaded = FALSE
    /\ features = [getters |-> TRUE]
    /\ strategyOut = "none"
    /\ providersOut = <<>>
    /\ providersCalled = FALSE

DbIdle ==
    /\ prisma = "null"
    /\ dbExport = "unloaded"
    /\ canConstruct = TRUE
    /\ clientsCreated = 0
    /\ dbServer = "up"
    /\ redisServer = "up"

HealthIdle ==
    /\ hpc = "idle"
    /\ hstatus = [status |-> "none"]
    /\ hhttp = 0
    /\ hprobe = "none"

\* the concurrent requests that use the cache handler, and the keys they use
Procs == {1, 2}
Keys == {"k", "k:t"}

Missing == [present |-> FALSE, text |-> <<>>, ttl |-> 0]
NoCall == [op |-> "idle", key |-> "", data |-> [t |-> "undef"], stage |-> ""]
NoRes == [p |-> 0, op |-> "none", ret |-> [t |-> "undef"], raised |-> FALSE,
          failure |-> "none", available |-> FALSE, matched |-> 0]
RtNone == [phase |-> "none", key |-> "", val |-> [t |-> "undef"], p |-> 0,
           ret |-> [t |-> "undef"]]

NoReq == [ctx |-> [def |-> FALSE, revalidate |-> [t |-> "undef"]], tags |-> {}, tag |-> ""]
NoInval == [tag |-> "", collateral |-> {}, missed |-> {}]

ConnIdle ==
    /\ conn = "none"
    /\ retryAttempts = 0
    /\ attempts = 0
    /\ delays = <<>>
    /\ lastEvent = "none"

DbCallIdle ==
    /\ dbCalls = 0
    /\ dbRet = "none"

AuthIdle ==
    /\ authRoute = "unloaded"
    /\ authConfig = [state |-> "unloaded"]
    /\ nextAuthCalls = 0
    /\ authImporter = "none"
    /\ authResp = [method |-> "none", status |-> 0, body |-> ""]

CacheIdle ==
    /\ req = [p \in Procs |-> NoReq]
    /\ tagged = [k \in Keys |-> {}]
    /\ inval = NoInval
    /\ constructed = FALSE
    /\ redis = "null"
    /\ redisEnabled = FALSE
    /\ store = [k \in Keys |-> Missing]
    /\ wire = <<>>
    /\ call = [p \in Procs |-> NoCall]
    /\ res = NoRes
    /\ rt = RtNone

CronIdle ==
    /\ envState = "unloaded"
    /\ cronCalls = 0
    /\ cronHeader = Undefined
    /\ cronMethod = "none"
    /\ cronStatus = 0
    /\ taskRuns = 0
    /\ cronLastRuns = 0

-----------------------------------------------------------------------------
(* Environment validation: lib/env *)

NodeEnvs == {"development", "production", "test"}

\* z.string().min(32).optional() / .nullish(): undefined passes, a string needs 32 characters
MinSecretLen == 32
secretOk(v) == ~v.def \/ Len(v.str) >= MinSecretLen

\* z.string().optional() in lib/env.ts; z.string().min(1, ...) in the mandatory variant
urlOk(v, x) == IF v = "mandatory" THEN x.def /\ Len(x.str) >= 1 ELSE TRUE

\* envSchema.parse inside validateEnv: "ok" when every field parses, "throw"
\* ('Invalid environment variables') otherwise
validateEnv(v, e) ==
    IF /\ (~e["NODE_ENV"].def \/ e["NODE_ENV"].str \in NodeEnvs)
       /\ secretOk(e["NEXTAUTH_SECRET"])
       /\ urlOk(v, e["DATABASE_URL"])
       /\ urlOk(v, e["REDIS_URL"])
       /\ secretOk(e["CRON_SECRET"])
    THEN "ok" ELSE "throw"

\* getNextAuthUrl() of the mandatory variant: the variable's own value (an
\* empty string counts as unset), else https://RAILWAY_PUBLIC_DOMAIN, else localhost
getNextAuthUrl(e) ==
    LET own == IF e["NEXTAUTH_URL"] = Str("") THEN Undefined ELSE e["NEXTAUTH_URL"]
    IN IF Truthy(own) THEN own.str
       ELSE IF Truthy(e["RAILWAY_PUBLIC_DOMAIN"])
            THEN "https://" \o e["RAILWAY_PUBLIC_DOMAIN"].str
       ELSE "http://localhost:3000"

\* process.env after validateEnv: the mandatory variant writes the resolved
\* URL to process.env.NEXTAUTH_URL once the schema has parsed
envAfterValidate(v, e) ==
    IF v = "mandatory" /\ validateEnv(v, e) = "ok"
    THEN [e EXCEPT !["NEXTAUTH_URL"] = Str(getNextAuthUrl(e))]
    ELSE e

\* export const env = validateEnv(), run when lib/env is first imported
LoadEnv ==
    /\ envState = "unloaded"
    /\ envState' = validateEnv(variant, env)
    /\ env' = envAfterValidate(variant, env)
    /\ UNCHANGED <<connVars, dbCallVars, authVars, variant, featVars, dbVars, healthVars, cacheVars>>
    /\ UNCHANGED <<cronCalls, cronHeader, cronMethod, cronStatus, taskRuns, cronLastRuns>>

-----------------------------------------------------------------------------
(* Scheduled-task endpoint: app/api/cron/route.ts *)

MaxCronCalls == 3

\* verifyAuth(request): authHeader is headers.get('authorization'), null when absent
VerifyAuthNoSecretCheck(authHeader, cronSecret) ==
    authHeader = Str("Bearer " \o Template(cronSecret))
verifyAuth(authHeader, cronSecret) ==
    IF ~Truthy(cronSecret)
    THEN FALSE
    ELSE authHeader = Str("Bearer " \o Template(cronSecret))

\* GET(request): 401 before any task logic, else the task runs once and 200 is answered
cronGET(authHeader, cronSecret) ==
    IF ~verifyAuth(authHeader, cronSecret)
    THEN [status |-> 401, runs |-> 0]
    ELSE [status |-> 200, runs |-> 1]

\* POST(request): return GET(request)
cronPOST(authHeader, cronSecret) == cronGET(authHeader, cronSecret)

CronHeaders ==
    {Undefined, Str(""), Str("Bearer "), Str("Bearer undefined"),
     Str("Bearer " \o Secret32), Str("Bearer " \o Secret33),
     Str("bearer " \o Secret32), Str(Secret32), Str("Bearer " \o Secret32 \o "x")}

CronRequest(method, h) ==
    /\ envState = "ok"
    /\ loaded
    /\ cronCalls < MaxCronCalls
    /\ LET r == IF method = "GET" THEN cronGET(h, env["CRON_SECRET"])
                                  ELSE cronPOST(h, env["CRON_SECRET"])
       IN /\ cronStatus' = r.status
          /\ cronLastRuns' = r.runs
          /\ taskRuns' = taskRuns + r.runs
    /\ cronCalls' = cronCalls + 1
    /\ cronHeader' = h
    /\ cronMethod' = method
    /\ UNCHANGED <<connVars, dbCallVars, authVars, env, variant, envState, featVars, dbVars, healthVars, cacheVars>>

CronGet == \E h \in CronHeaders : CronRequest("GET", h)
CronPost == \E h \in CronHeaders : CronRequest("POST", h)

\* environment of the cron specification: CRON_SECRET, and the two variables
\* the mandatory variant resolves NEXTAUTH_URL from
CronSecrets == {Undefined, Str(""), Str("undefined"), Str(Secret31), Str(Secret32), Str(Secret33)}

OwnUrls == {Undefined, Str(""), Str("https://own.example")}
RailwayDomains == {Undefined, Str("app.up.railway.app")}

BaseEnv == [n \in ProcessEnvNames |-> Undefined]

\* the mandatory variant only starts with both connection strings set
StartableEnv(v) ==
    IF v = "mandatory"
    THEN [BaseEnv EXCEPT !["DATABASE_URL"] = Str("postgresql://db"), !["REDIS_URL"] = Str("redis://r")]
    ELSE BaseEnv

CronInit ==
    /\ variant \in Variants
    /\ \E s \in CronSecrets, u \in OwnUrls, d \in RailwayDomains :
          env = [StartableEnv(variant) EXCEPT !["CRON_SECRET"] = s, !["NEXTAUTH_URL"] = u,
                                              !["RAILWAY_PUBLIC_DOMAIN"] = d]
    /\ FeatIdle
    /\ CronIdle
    /\ DbIdle
    /\ HealthIdle
    /\ CacheIdle
    /\ AuthIdle
    /\ ConnIdle
    /\ DbCallIdle

\* the import of the route evaluates lib/env and, through lib/logger,
\* lib/features; requests are handled once both are evaluated
CronNext == LoadEnv \/ LoadFeatures \/ CronGet \/ CronPost

vars == <<env, variant, featVars, cronVars, dbVars, healthVars, cacheVars, authVars,
          connVars, dbCallVars>>

SpecCron == CronInit /\ [][CronNext]_vars

\* C6: a handled cron request is answered 200, with the task logic run exactly
\* once, exactly when CRON_SECRET is configured and the Authorization header
\* equals "Bearer " followed by it; every other request is answered 401 and
\* runs no task logic.
CronAuthorised ==
    /\ env["CRON_SECRET"].def
    /\ env["CRON_SECRET"].str # ""
    /\ cronHeader.def
    /\ cronHeader.str = "Bearer " \o env["CRON_SECRET"].str

C6_BearerExact ==
    cronCalls > 0 =>
        /\ CronAuthorised => (cronStatus = 200 /\ cronLastRuns = 1)
        /\ ~CronAuthorised => (cronStatus = 401 /\ cronLastRuns = 0)
        /\ taskRuns <= cronCalls

C6_Witness ==
    /\ cronCalls = 2
    /\ taskRuns = 1
    /\ cronStatus = 200
    /\ cronMethod = "POST"
    /\ cronHeader = Str("Bearer " \o Secret33)

-----------------------------------------------------------------------------
(* Environment snapshots for startup validation *)

\* NEXTAUTH_SECRET values of every length from 0 to 33, and unset
SecretOfLen(n) == SubSeq(Secret33, 1, n)
SecretLens == 0..Len(Secret33)
ConnVals == {Undefined, Str(""), Str("postgresql://db")}

NonEmpty(v) == v.def /\ Len(v.str) > 0
ShortSecret(v) == v.def /\ Len(v.str) >= 1 /\ Len(v.str) < MinSecretLen
MissingConnection ==
    variant = "mandatory" /\ (~NonEmpty(env["DATABASE_URL"]) \/ ~NonEmpty(env["REDIS_URL"]))

-----------------------------------------------------------------------------
(* Capability resolution over environment snapshots *)

IdVals == {Undefined, Str(""), Str(" "), Str("id")}
PairVals == {Undefined, Str(""), Str("x")}
UrlVals == {Undefined, Str(""), Str(" "), Str("postgresql://db")}

FeatEnvs ==
    {[BaseEnv EXCEPT !["GITHUB_ID"] = gi, !["GITHUB_SECRET"] = gs,
                     !["GOOGLE_ID"] = oi, !["GOOGLE_SECRET"] = os,
                     !["DISCORD_ID"] = di, !["DISCORD_SECRET"] = ds,
                     !["DATABASE_URL"] = db, !["NEXTAUTH_SECRET"] = au] :
        gi \in IdVals, gs \in IdVals, oi \in PairVals, os \in PairVals,
        di \in PairVals, ds \in PairVals, db \in UrlVals,
        au \in {Undefined, Str(Secret32)}}

FeatInit ==
    /\ variant \in Variants
    /\ env \in FeatEnvs
    /\ FeatIdle
    /\ CronIdle
    /\ DbIdle
    /\ HealthIdle
    /\ CacheIdle
    /\ AuthIdle
    /\ ConnIdle
    /\ DbCallIdle

FeatNext == LoadFeatures \/ CallGetAuthStrategy \/ CallGetEnabledProviders

SpecFeatures == FeatInit /\ [][FeatNext]_vars


\* C4: once lib/features is evaluated, each provider capability is true
\* exactly when both the provider's id and its secret are non-empty strings;
\* a pair with only one of them set, or with an empty one, yields false.
C4_ProviderIffBoth ==
    loaded =>
        LET f == Features(variant, features, env) IN
        /\ f.githubProvider = (NonEmpty(env["GITHUB_ID"]) /\ NonEmpty(env["GITHUB_SECRET"]))
        /\ f.googleProvider = (NonEmpty(env["GOOGLE_ID"]) /\ NonEmpty(env["GOOGLE_SECRET"]))
        /\ f.discordProvider = (NonEmpty(env["DISCORD_ID"]) /\ NonEmpty(env["DISCORD_SECRET"]))

\* a partial credential set (id without secret, secret empty) next to a full one
C4_Witness ==
    /\ loaded
    /\ variant = "snapshot"
    /\ env["GITHUB_ID"] = Str("id") /\ env["GITHUB_SECRET"] = Undefined
    /\ env["GOOGLE_ID"] = Str("x") /\ env["GOOGLE_SECRET"] = Str("")
    /\ env["DISCORD_ID"] = Str("x") /\ env["DISCORD_SECRET"] = Str("x")
    /\ ~features.githubProvider /\ ~features.googleProvider /\ features.discordProvider

\* C5: a call of getAuthStrategy() returns 'database' exactly when
\* DATABASE_URL is non-empty in the persistence-optional variants and 'jwt'
\* otherwise; in the persistence-mandatory variant it returns 'database' for
\* every environment.
C5_StrategyIffDatabase ==
    strategyOut # "none" =>
        /\ strategyOut \in {"database", "jwt"}
        /\ Optional(variant) => (strategyOut = "database" <=> NonEmpty(env["DATABASE_URL"]))
        /\ variant = "mandatory" => strategyOut = "database"

C5_Witness ==
    /\ variant = "getter"
    /\ env["DATABASE_URL"] = Str("")
    /\ strategyOut = "jwt"

\* C16: getEnabledProviders() returns the providers whose capability is true,
\* each once, in the fixed order github, google, discord; the empty sequence
\* when none is enabled.
ProviderOrder == <<"github", "google", "discord">>
CapabilityOf(f, name) ==
    CASE name = "github"  -> f.githubProvider
      [] name = "google"  -> f.googleProvider
      [] name = "discord" -> f.discordProvider

C16_EnabledProviders ==
    providersCalled =>
        LET f == Features(variant, features, env)
            Enabled(name) == CapabilityOf(f, name)
        IN providersOut = SelectSeq(ProviderOrder, Enabled)

\* github and discord enabled, google left out because its secret is missing
C16_Witness ==
    /\ providersCalled
    /\ providersOut = <<"github", "discord">>
    /\ NonEmpty(env["GOOGLE_ID"])
    /\ ~NonEmpty(env["GOOGLE_SECRET"])

\* String.prototype.trim, for values whose only whitespace is the space
RECURSIVE TrimLeft(_)
TrimLeft(str) ==
    IF Len(str) > 0 /\ SubSeq(str, 1, 1) = " " THEN TrimLeft(SubSeq(str, 2, Len(str))) ELSE str
RECURSIVE TrimRight(_)
TrimRight(str) ==
    IF Len(str) > 0 /\ SubSeq(str, Len(str), Len(str)) = " "
    THEN TrimRight(SubSeq(str, 1, Len(str) - 1)) ELSE str
PresentAfterTrim(v) == v.def /\ Len(TrimRight(TrimLeft(v.str))) > 0

\* C17: once lib/features is evaluated, a capability is true exactly when
\* every environment value it requires is present and non-empty after
\* trimming; a value of whitespace only resolves the capability to false.
C17_TrimmedNonEmpty ==
    loaded =>
        LET f == Features(variant, features, env) IN
        /\ f.auth = PresentAfterTrim(env["NEXTAUTH_SECRET"])
        /\ Optional(variant) => f.database = PresentAfterTrim(env["DATABASE_URL"])
        /\ f.githubProvider = (/\ PresentAfterTrim(env["GITHUB_ID"])
                               /\ PresentAfterTrim(env["GITHUB_SECRET"]))
        /\ f.googleProvider = (/\ PresentAfterTrim(env["GOOGLE_ID"])
                               /\ PresentAfterTrim(env["GOOGLE_SECRET"]))
        /\ f.discordProvider = (/\ PresentAfterTrim(env["DISCORD_ID"])
                                /\ PresentAfterTrim(env["DISCORD_SECRET"]))

-----------------------------------------------------------------------------
(* Database client accessor: lib/db *)

\* getDb(): null when the database capability is false, the existing instance
\* when there is one, else a new client, or null when constructing it throws
GetDbNoSingleton(f, pr, can) ==
    IF ~f.database THEN [ret |-> "null", prisma |-> pr, created |-> 0]
    ELSE IF can THEN [ret |-> "client", prisma |-> "client", created |-> 1]
    ELSE [ret |-> "null", prisma |-> pr, created |-> 0]
getDb(f, pr, can) ==
    IF ~f.database THEN [ret |-> "null", prisma |-> pr, created |-> 0]
    ELSE IF pr # "null" THEN [ret |-> pr, prisma |-> pr, created |-> 0]
    ELSE IF can THEN [ret |-> "client", prisma |-> "client", created |-> 1]
    ELSE [ret |-> "null", prisma |-> pr, created |-> 0]

\* the mandatory variant's `db` export: always an initialised client
dbMandatory == "client"

\* import of lib/db: export const db = getDb()
ImportDb ==
    /\ loaded
    /\ dbExport = "unloaded"
    /\ IF variant = "mandatory"
       THEN /\ dbExport' = dbMandatory
            /\ prisma' = "client"
            /\ clientsCreated' = clientsCreated + 1
       ELSE LET g == getDb(Features(variant, features, env), prisma, canConstruct)
            IN /\ dbExport' = g.ret
               /\ prisma' = g.prisma
               /\ clientsCreated' = clientsCreated + g.created
    /\ UNCHANGED <<connVars, dbCallVars, authVars, env, variant, featVars, cronVars, healthVars, cacheVars>>
    /\ UNCHANGED <<canConstruct, dbServer, redisServer>>

\* a consumer calls getDb()
MaxDbCalls == 3

CallGetDb ==
    /\ loaded
    /\ dbExport # "unloaded"
    /\ Optional(variant)
    /\ dbCalls < MaxDbCalls
    /\ LET g == getDb(Features(variant, features, env), prisma, canConstruct)
       IN /\ dbRet' = g.ret
          /\ prisma' = g.prisma
          /\ clientsCreated' = clientsCreated + g.created
    /\ dbCalls' = dbCalls + 1
    /\ UNCHANGED <<connVars, authVars, env, variant, featVars, cronVars, healthVars, cacheVars>>
    /\ UNCHANGED <<dbExport, canConstruct, dbServer, redisServer>>

\* the generated client or the driver becomes available or unavailable, so
\* that the require() and new calls inside getDb's try block succeed or throw
ClientAvailabilityChanges ==
    /\ canConstruct' = ~canConstruct
    /\ UNCHANGED <<connVars, dbCallVars, authVars, env, variant, featVars, cronVars, healthVars,
                   cacheVars>>
    /\ UNCHANGED <<prisma, dbExport, clientsCreated, dbServer, redisServer>>

DbEnvs ==
    {[BaseEnv EXCEPT !["DATABASE_URL"] = db, !["NODE_ENV"] = ne] :
        db \in {Undefined, Str(""), Str("postgresql://db")},
        ne \in {Undefined, Str("production"), Str("development")}}

DbInit ==
    /\ variant \in {"snapshot", "getter"}
    /\ env \in DbEnvs
    /\ FeatIdle
    /\ CronIdle
    /\ prisma = "null"
    /\ dbExport = "unloaded"
    /\ clientsCreated = 0
    /\ canConstruct \in BOOLEAN
    /\ dbServer = "up"
    /\ redisServer = "up"
    /\ HealthIdle
    /\ CacheIdle
    /\ AuthIdle
    /\ ConnIdle
    /\ DbCallIdle

DbNext == LoadFeatures \/ ImportDb \/ CallGetDb \/ ClientAvailabilityChanges

SpecDb == DbInit /\ [][DbNext]_vars

\* C22: every getDb() call returns a value, null or the client; it returns
\* null whenever the database capability is false or no client could be
\* constructed, the one existing client otherwise; and at most one client is
\* ever constructed.
C22_GetDbSingleton ==
    /\ dbRet \in {"none", "null", "client"}
    /\ clientsCreated <= 1
    /\ (clientsCreated = 1) <=> (prisma = "client")
    /\ dbCalls > 0 => dbRet = prisma
    /\ (loaded /\ ~NonEmpty(env["DATABASE_URL"])) => prisma = "null"

\* the import could not construct a client, a later call could, and the
\* calls after it got the same client
C22_Witness ==
    /\ dbExport = "null"
    /\ dbCalls = MaxDbCalls
    /\ dbRet = "client"
    /\ clientsCreated = 1
    /\ ~canConstruct

-----------------------------------------------------------------------------
(* Health aggregation: app/api/health/route.ts *)
(* timestamp, uptime, environment, memory and responseTime are present in   *)
(* every response and carry no capability information; they are left out.   *)

\* [a && 'github', b && 'google', c && 'discord'].filter(Boolean)
healthProviders(f) ==
    LET all == <<[keep |-> f.githubProvider, name |-> "github"],
                 [keep |-> f.googleProvider, name |-> "google"],
                 [keep |-> f.discordProvider, name |-> "discord"]>>
        Keep(x) == x.keep
        kept == SelectSeq(all, Keep)
    IN [i \in 1..Len(kept) |-> kept[i].name]

\* auth: { enabled: features.auth, ...(features.auth && { strategy, providers }) }
healthAuth(v, f) ==
    IF f.auth
    THEN [enabled |-> TRUE, strategy |-> getAuthStrategy(v, f), providers |-> healthProviders(f)]
    ELSE [enabled |-> FALSE]

\* { enabled, status: enabled ? 'connected' : 'disabled' }
subsystemEntry(enabled) ==
    [enabled |-> enabled, status |-> IF enabled THEN "connected" ELSE "disabled"]

\* the status object as first built by GET
initialStatus(v, f, e) ==
    [status   |-> "healthy",
     features |-> [auth     |-> healthAuth(v, f),
                   database |-> IF v = "mandatory" THEN subsystemEntry(TRUE)
                                                   ELSE subsystemEntry(f.database),
                   redis    |-> IF v = "mandatory" THEN subsystemEntry(ToBool(e["REDIS_URL"]))
                                                   ELSE subsystemEntry(f.redis)]]

\* try-branch after the probe query returned
probeSucceeded(st) == [st EXCEPT !.features.database.status = "connected"]

\* catch-branch of the database probe
ProbeFailedUnhealthy(st) ==
    [st EXCEPT !.status = "unhealthy", !.features.database.status = "error"]
probeFailed(st) ==
    [st EXCEPT !.status = "degraded",
               !.features.database = [enabled |-> @.enabled, status |-> "error",
                                      error |-> "error.message"]]

\* "Test Redis connection if enabled": no command is sent, the status is assigned
redisCheck(st, enabled) ==
    IF enabled THEN [st EXCEPT !.features.redis.status = "connected"] ELSE st

\* status: status.status === 'unhealthy' ? 503 : 200
httpStatus(st) == IF st.status = "unhealthy" THEN 503 ELSE 200

\* the rest of GET after the database block: the optional variant has the
\* redis block, the mandatory variant goes straight to the response
afterDatabase(v, f, st) == IF v = "mandatory" THEN st ELSE redisCheck(st, f.redis)

HealthRespond(st) ==
    /\ hstatus' = st
    /\ hhttp' = httpStatus(st)
    /\ hpc' = "done"

\* GET up to its first await, or to the response when nothing is awaited
HealthStart ==
    /\ loaded
    /\ dbExport # "unloaded"
    /\ hpc \in {"idle", "done"}
    /\ LET f == Features(variant, features, env)
           st0 == initialStatus(variant, f, env)
       IN IF variant = "mandatory"
          THEN /\ hpc' = "probe" /\ hstatus' = st0 /\ hhttp' = 0 /\ hprobe' = "none"
               /\ UNCHANGED <<prisma, clientsCreated>>
          ELSE IF f.database
          THEN LET g == getDb(f, prisma, canConstruct)
               IN /\ prisma' = g.prisma
                  /\ clientsCreated' = clientsCreated + g.created
                  /\ hprobe' = "none"
                  /\ IF g.ret # "null"
                     THEN hpc' = "probe" /\ hstatus' = st0 /\ hhttp' = 0
                     ELSE HealthRespond(afterDatabase(variant, f, st0))
          ELSE /\ HealthRespond(afterDatabase(variant, f, st0))
               /\ hprobe' = "none"
               /\ UNCHANGED <<prisma, clientsCreated>>
    /\ UNCHANGED <<connVars, dbCallVars, authVars, env, variant, featVars, cronVars, cacheVars>>
    /\ UNCHANGED <<dbExport, canConstruct, dbServer, redisServer>>

\* await db.$queryRaw`SELECT 1` resolves
HealthProbeResolves ==
    /\ hpc = "probe"
    /\ dbServer = "up"
    /\ hprobe' = "ok"
    /\ HealthRespond(afterDatabase(variant, Features(variant, features, env),
                                   probeSucceeded(hstatus)))
    /\ UNCHANGED <<connVars, dbCallVars, authVars, env, variant, featVars, cronVars, dbVars, cacheVars>>

\* await db.$queryRaw`SELECT 1` rejects
HealthProbeRejects ==
    /\ hpc = "probe"
    /\ dbServer \in {"down", "absent"}
    /\ hprobe' = "fail"
    /\ HealthRespond(afterDatabase(variant, Features(variant, features, env),
                                   probeFailed(hstatus)))
    /\ UNCHANGED <<connVars, dbCallVars, authVars, env, variant, featVars, cronVars, dbVars, cacheVars>>

HealthEnvs ==
    {[BaseEnv EXCEPT !["NEXTAUTH_SECRET"] = au, !["DATABASE_URL"] = db, !["REDIS_URL"] = rd,
                     !["GITHUB_ID"] = gi, !["GITHUB_SECRET"] = gs] :
        au \in {Undefined, Str(Secret32)},
        db \in {Undefined, Str(""), Str("postgresql://db")},
        rd \in {Undefined, Str("redis://r")},
        gi \in {Undefined, Str("id")}, gs \in {Undefined, Str("id")}}

HealthInit ==
    /\ variant \in Variants
    /\ env \in HealthEnvs
    /\ FeatIdle
    /\ CronIdle
    /\ prisma = "null"
    /\ dbExport = "unloaded"
    /\ clientsCreated = 0
    /\ canConstruct \in BOOLEAN
    /\ dbServer \in {"up", "down", "absent", "hang"}
    /\ redisServer \in {"up", "down"}
    /\ HealthIdle
    /\ CacheIdle
    /\ AuthIdle
    /\ ConnIdle
    /\ DbCallIdle

HealthNext ==
    LoadFeatures \/ ImportDb \/ HealthStart \/ HealthProbeResolves \/ HealthProbeRejects

SpecHealth == HealthInit /\ [][HealthNext]_vars

HealthDone == hpc = "done"
DatabaseEnabled == variant = "mandatory" \/ NonEmpty(env["DATABASE_URL"])
CacheEnabled == NonEmpty(env["REDIS_URL"])
AuthEnabled == NonEmpty(env["NEXTAUTH_SECRET"])

\* C7: a failed database probe leaves database.status = 'error' and the
\* overall status 'degraded' in the response, and no state of a health check
\* has the overall status 'unhealthy'.
C7_ProbeFailureDegrades ==
    /\ (HealthDone /\ hprobe = "fail") =>
          /\ hstatus.features.database.status = "error"
          /\ hstatus.status = "degraded"
    /\ hpc # "idle" => hstatus.status \in {"healthy", "degraded"}

C7_Witness ==
    /\ HealthDone
    /\ hprobe = "fail"
    /\ variant = "getter"
    /\ CacheEnabled
    /\ hstatus.features.redis.status = "connected"

\* C8: with the cache capability true, the health response reports the cache
\* 'connected' only after a successful probe of the backend; with the backend
\* unreachable it reports 'error' and the overall status 'degraded'.
C8_CacheProbed ==
    (HealthDone /\ CacheEnabled /\ redisServer = "down") =>
        /\ hstatus.features.redis.status = "error"
        /\ hstatus.status = "degraded"

Subsystems == {"auth", "database", "redis"}

\* C9 as claimed: every subsystem entry of a health response has an 'enabled'
\* flag and a 'status' field, a disabled subsystem having status 'disabled'.
C9_UniformShape ==
    HealthDone =>
        \A s \in Subsystems :
            /\ {"enabled", "status"} \subseteq DOMAIN hstatus.features[s]
            /\ ~hstatus.features[s].enabled => hstatus.features[s].status = "disabled"

\* C10: the response is 200 for 'healthy' and 'degraded' and 503 for
\* 'unhealthy', and in the mandatory-database variant a health check run with
\* the database absent ends 'unhealthy' with 503.
C10_HttpStatus ==
    HealthDone =>
        /\ hstatus.status \in {"healthy", "degraded"} => hhttp = 200
        /\ hstatus.status = "unhealthy" => hhttp = 503
        /\ (variant = "mandatory" /\ dbServer = "absent") =>
              (hstatus.status = "unhealthy" /\ hhttp = 503)

\* C19: in a health response every subsystem (auth, database, redis) whose
\* capability is false is reported with status 'disabled', and nothing is
\* probed for it: with the database capability false no client is
\* constructed or obtained and no probe query is awaited or settled.
C19_DisabledNoProbe ==
    /\ (loaded /\ ~DatabaseEnabled) =>
            /\ hpc # "probe"
            /\ hprobe = "none"
            /\ prisma = "null"
            /\ clientsCreated = 0
            /\ dbExport \in {"unloaded", "null"}
    /\ HealthDone =>
            \A s \in Subsystems :
                ~hstatus.features[s].enabled =>
                    /\ "status" \in DOMAIN hstatus.features[s]
                    /\ hstatus.features[s].status = "disabled"

\* C30: in the persistence-optional health check the database is reported
\* 'connected' only when the probe query of that check ran and succeeded;
\* with the capability true and no client (getDb() returned null) the
\* database is not reported 'connected' and the overall status is not 'healthy'.
C30_ConnectedOnlyIfProbed ==
    (HealthDone /\ Optional(variant)) =>
        /\ hstatus.features.database.status = "connected" => hprobe = "ok"
        /\ (DatabaseEnabled /\ prisma = "null") =>
              (hstatus.features.database.status # "connected" /\ hstatus.status # "healthy")

-----------------------------------------------------------------------------
(* Startup validation in a process that serves the cron and health routes *)

EnvInit ==
    /\ variant \in Variants
    /\ \E au \in {Undefined} \cup {Str(SecretOfLen(n)) : n \in SecretLens},
          db \in ConnVals, rd \in ConnVals :
          env = [BaseEnv EXCEPT !["NEXTAUTH_SECRET"] = au, !["DATABASE_URL"] = db,
                                !["REDIS_URL"] = rd]
    /\ FeatIdle
    /\ CronIdle
    /\ prisma = "null"
    /\ dbExport = "unloaded"
    /\ canConstruct = TRUE
    /\ clientsCreated = 0
    /\ dbServer \in {"up", "down"}
    /\ redisServer = "up"
    /\ HealthIdle
    /\ CacheIdle
    /\ AuthIdle
    /\ ConnIdle
    /\ DbCallIdle

\* The routes of one process: the cron route imports lib/env (directly and
\* through lib/logger), so a throw of validateEnv keeps it from handling any
\* request; the health route imports lib/features and lib/db only, and
\* neither of them imports lib/env, so it is evaluated and answers whatever
\* validateEnv would do.
EnvNext ==
    \/ LoadFeatures \/ LoadEnv \/ CronGet \/ CronPost
    \/ ImportDb \/ HealthStart \/ HealthProbeResolves \/ HealthProbeRejects

SpecEnv == EnvInit /\ [][EnvNext]_vars

\* C18: a NEXTAUTH_SECRET of 1 to 31 characters resolves the auth capability
\* to true and makes the import of lib/env throw; in the mandatory variant a
\* missing or empty DATABASE_URL or REDIS_URL makes it throw as well; and in
\* such a state the process serves no traffic: no route handles a request,
\* neither the cron route nor the health route.
C18_ShortSecretFatal ==
    /\ (loaded /\ ShortSecret(env["NEXTAUTH_SECRET"])) =>
            Features(variant, features, env).auth
    /\ (envState # "unloaded" /\ ShortSecret(env["NEXTAUTH_SECRET"])) => envState = "throw"
    /\ (envState # "unloaded" /\ MissingConnection) => envState = "throw"
    /\ (ShortSecret(env["NEXTAUTH_SECRET"]) \/ MissingConnection) =>
            (cronCalls = 0 /\ hpc = "idle")

\* C29: when the auth capability resolves to false (NEXTAUTH_SECRET unset or
\* the empty string), the import of lib/env does not throw on account of
\* NEXTAUTH_SECRET: with nothing else invalid, validation passes.
C29_DisabledAuthPasses ==
    (/\ loaded
     /\ envState # "unloaded"
     /\ ~Features(variant, features, env).auth
     /\ ~MissingConnection) => envState = "ok"

-----------------------------------------------------------------------------
(* The health check in front of a database whose probe may never settle:    *)
(* GET awaits db.$queryRaw with no timer beside it, so only the settling of *)
(* the query lets it go on. A database that is up, down or absent settles   *)
(* every probe query.                                                       *)

SpecHealthLive ==
    HealthInit /\ [][HealthNext]_vars /\ WF_vars(HealthProbeResolves \/ HealthProbeRejects)

\* C21: a health check that awaits its database probe eventually responds,
\* also when the probe query never completes.
C21_HealthEventuallyResponds == (hpc = "probe") ~> (hpc = "done")

-----------------------------------------------------------------------------
(* JavaScript values handled by the cache handler, and JSON text *)
(* Values: null, undefined, booleans, numbers, strings, arrays, objects and *)
(* a BigInt (which JSON.stringify rejects). A string and a JSON text are    *)
(* sequences of UTF-16 code units (numbers), so that every character, the   *)
(* control characters included, can occur. An object is the sequence of its *)
(* own properties in enumeration order. A number is an integer, or a        *)
(* decimal m * 10^e with e < 0 and m not a multiple of 10; numbers of more  *)
(* than MaxNumberDigits significant digits are read as BeyondRange, and -0  *)
(* is not told apart from 0.                                                *)

JsNull == [t |-> "null"]
JsUndef == [t |-> "undef"]
JsBool(b) == [t |-> "bool", b |-> b]
JsNum(n) == [t |-> "num", n |-> n]
JsDec(m, e) == [t |-> "dec", m |-> m, e |-> e]
JsStr(s) == [t |-> "str", s |-> s]
JsArr(a) == [t |-> "arr", a |-> a]
JsObj(m) == [t |-> "obj", m |-> m]
JsBigInt == [t |-> "bigint"]
BeyondRange == [t |-> "beyond"]
Member(k, v) == [k |-> k, v |-> v]

\* truthiness of a JavaScript value
truthy(v) ==
    CASE v.t = "null"   -> FALSE
      [] v.t = "undef"  -> FALSE
      [] v.t = "bool"   -> v.b
      [] v.t = "num"    -> v.n # 0
      [] v.t = "str"    -> Len(v.s) > 0
      [] OTHER          -> TRUE

Char(s, i) == SubSeq(s, i, i)

\* the printable ASCII characters in code order: U+0020 to U+005F, and
\* U+0061 to U+007E (U+0060 cannot be written in a string of the model)
AsciiLow == " !\"#$%&'()*+,-./0123456789:;<=>?@ABCDEFGHIJKLMNOPQRSTUVWXYZ[\\]^_"
AsciiHigh == "abcdefghijklmnopqrstuvwxyz{|}~"

\* the code unit of a character
Code(c) ==
    CASE c = "\t" -> 9
      [] c = "\n" -> 10
      [] c = "\f" -> 12
      [] c = "\r" -> 13
      [] \E i \in 1..Len(AsciiLow) : Char(AsciiLow, i) = c ->
             31 + (CHOOSE i \in 1..Len(AsciiLow) : Char(AsciiLow, i) = c)
      [] OTHER -> 96 + (CHOOSE i \in 1..Len(AsciiHigh) : Char(AsciiHigh, i) = c)

\* the code units of a piece of text
Codes(str) == [i \in 1..Len(str) |-> Code(Char(str, i))]

\* a string reply of the backend, and its null reply
Text(t) == [def |-> TRUE, str |-> t]
NoText == [def |-> FALSE, str |-> <<>>]

\* truthiness of a string | null reply: null and the empty string are falsy
textTruthy(v) == v.def /\ Len(v.str) > 0

QuoteCode == Code("\"")
BackslashCode == Code("\\")
CommaCode == Code(",")
ColonCode == Code(":")
MinusCode == Code("-")
PlusCode == Code("+")
DotCode == Code(".")
OpenBracketCode == Code("[")
CloseBracketCode == Code("]")
OpenBraceCode == Code("{")
CloseBraceCode == Code("}")
LowerUCode == Code("u")
NullText == Codes("null")
TrueText == Codes("true")
FalseText == Codes("false")
HexDigits == Codes("0123456789abcdef")
UpperHexLetters == Codes("ABCDEF")
ZeroCode == HexDigits[1]
ExponentCodes == {HexDigits[15], UpperHexLetters[5]}

\* the simple escapes: \" \\ \/ \b \f \n \r \t and the characters they stand for
EscapeLetters == Codes("\"\\/bfnrt")
EscapeValues == Codes("\"\\/") \o <<8, 12, 10, 13, 9>>

\* s starts with the code unit c
At(s, c) == Len(s) > 0 /\ s[1] = c

\* UTF-16 surrogates: a high one followed by a low one is one character
IsHighSurrogate(c) == c \in 55296..56319
IsLowSurrogate(c) == c \in 56320..57343

\* \uXXXX with four lower-case hex digits
UnicodeEscape(c) ==
    <<BackslashCode, LowerUCode,
      HexDigits[(c \div 4096) + 1], HexDigits[((c \div 256) % 16) + 1],
      HexDigits[((c \div 16) % 16) + 1], HexDigits[(c % 16) + 1]>>

\* one code unit inside a string literal, as JSON.stringify writes it: the
\* quote, the backslash and \b \f \n \r \t as simple escapes (the slash is
\* written as it is), any other control character and a lone surrogate as \uXXXX
QuoteCodeUnit(c) ==
    IF \E i \in {1, 2, 4, 5, 6, 7, 8} : EscapeValues[i] = c
    THEN <<BackslashCode,
           EscapeLetters[CHOOSE i \in {1, 2, 4, 5, 6, 7, 8} : EscapeValues[i] = c]>>
    ELSE IF c < 32 \/ IsHighSurrogate(c) \/ IsLowSurrogate(c) THEN UnicodeEscape(c)
    ELSE <<c>>

\* the code units of a string from index i on, escaped; a surrogate pair is
\* written as it is, a lone surrogate is escaped
RECURSIVE QuoteFrom(_, _)
QuoteFrom(str, i) ==
    IF i > Len(str) THEN <<>>
    ELSE IF i < Len(str) /\ IsHighSurrogate(str[i]) /\ IsLowSurrogate(str[i + 1])
         THEN <<str[i], str[i + 1]>> \o QuoteFrom(str, i + 2)
    ELSE QuoteCodeUnit(str[i]) \o QuoteFrom(str, i + 1)

\* a string as a JSON string literal
Quote(str) == <<QuoteCode>> \o QuoteFrom(str, 1) \o <<QuoteCode>>

\* the decimal digits of a natural number
RECURSIVE NaturalText(_)
NaturalText(n) ==
    IF n < 10 THEN <<HexDigits[n + 1]>>
    ELSE NaturalText(n \div 10) \o <<HexDigits[(n % 10) + 1]>>

\* n zeros
Zeros(n) == [i \in 1..n |-> ZeroCode]

\* Number::toString of an integer
NumberText(n) == IF n < 0 THEN <<MinusCode>> \o NaturalText(0 - n) ELSE NaturalText(n)

\* Number::toString of the decimal m * 10^e (e < 0): with k digits and the
\* point after the n-th, digits.digits for n > 0, 0.000digits for
\* -6 < n <= 0, and d.ddde-x below that
DecimalText(m, e) ==
    LET d == NaturalText(IF m < 0 THEN 0 - m ELSE m)
        k == Len(d)
        n == k + e
        body == IF n > 0 THEN SubSeq(d, 1, n) \o <<DotCode>> \o SubSeq(d, n + 1, k)
                ELSE IF n > -6 THEN <<ZeroCode, DotCode>> \o Zeros(0 - n) \o d
                ELSE <<d[1]>> \o (IF k > 1 THEN <<DotCode>> \o SubSeq(d, 2, k) ELSE <<>>)
                        \o <<HexDigits[15], MinusCode>> \o NaturalText(1 - n)
    IN (IF m < 0 THEN <<MinusCode>> ELSE <<>>) \o body

RECURSIVE JSONstringifyValue(_), JoinElements(_, _), JoinMembers(_, _, _)

\* the elements of an array from index i on, separated by commas; an
\* element that is undefined is written as null
JoinElements(a, i) ==
    IF i > Len(a) THEN <<>>
    ELSE (IF a[i].t = "undef" THEN NullText ELSE JSONstringifyValue(a[i]))
             \o (IF i < Len(a) THEN <<CommaCode>> ELSE <<>>)
             \o JoinElements(a, i + 1)

\* the properties of an object from index i on as "key":value, separated by
\* commas (first: none was written yet); a property that is undefined is left out
JoinMembers(m, i, first) ==
    IF i > Len(m) THEN <<>>
    ELSE IF m[i].v.t = "undef" THEN JoinMembers(m, i + 1, first)
    ELSE (IF first THEN <<>> ELSE <<CommaCode>>)
             \o Quote(m[i].k) \o <<ColonCode>> \o JSONstringifyValue(m[i].v)
             \o JoinMembers(m, i + 1, FALSE)

\* the text JSON.stringify produces for a serialisable value
JSONstringifyValue(v) ==
    CASE v.t = "null" -> NullText
      [] v.t = "bool" -> IF v.b THEN TrueText ELSE FalseText
      [] v.t = "num"  -> NumberText(v.n)
      [] v.t = "dec"  -> DecimalText(v.m, v.e)
      [] v.t = "str"  -> Quote(v.s)
      [] v.t = "arr"  -> <<OpenBracketCode>> \o JoinElements(v.a, 1) \o <<CloseBracketCode>>
      [] v.t = "obj"  -> <<OpenBraceCode>> \o JoinMembers(v.m, 1, TRUE) \o <<CloseBraceCode>>

RECURSIVE HasBigInt(_)
HasBigInt(v) ==
    CASE v.t = "bigint" -> TRUE
      [] v.t = "arr"    -> \E i \in 1..Len(v.a) : HasBigInt(v.a[i])
      [] v.t = "obj"    -> \E i \in 1..Len(v.m) : HasBigInt(v.m[i].v)
      [] OTHER          -> FALSE

\* JSON.stringify(data): throws a TypeError on a BigInt, returns undefined
\* (def false) for undefined, and the text otherwise
JSONstringify(v) ==
    IF HasBigInt(v) THEN [threw |-> TRUE, def |-> FALSE, text |-> <<>>]
    ELSE IF v.t = "undef" THEN [threw |-> FALSE, def |-> FALSE, text |-> <<>>]
    ELSE [threw |-> FALSE, def |-> TRUE, text |-> JSONstringifyValue(v)]

Fail == [ok |-> FALSE, val |-> JsNull, rest |-> <<>>]
StartsWith(s, pre) == Len(s) >= Len(pre) /\ SubSeq(s, 1, Len(pre)) = pre
Drop(s, n) == SubSeq(s, n + 1, Len(s))

\* JSON whitespace: space, tab, line feed, carriage return
Whitespace == {Code(" "), Code("\t"), Code("\n"), Code("\r")}

RECURSIVE SkipWs(_)
SkipWs(s) == IF Len(s) > 0 /\ s[1] \in Whitespace THEN SkipWs(Drop(s, 1)) ELSE s

Digits == {HexDigits[i] : i \in 1..10}
DigitValue(c) == c - ZeroCode

\* the value of a hex digit of either case, -1 for any other code unit
HexValue(c) ==
    IF \E i \in 1..16 : HexDigits[i] = c
    THEN (CHOOSE i \in 1..16 : HexDigits[i] = c) - 1
    ELSE IF \E i \in 1..6 : UpperHexLetters[i] = c
    THEN (CHOOSE i \in 1..6 : UpperHexLetters[i] = c) + 9
    ELSE -1

\* the characters U+0000 to U+001F: none may stand unescaped in a string literal
ControlChars == 0..31

\* the character an escape \c stands for, -1 when \c is no simple escape
SimpleEscape(c) ==
    IF \E i \in 1..8 : EscapeLetters[i] = c
    THEN EscapeValues[CHOOSE i \in 1..8 : EscapeLetters[i] = c]
    ELSE -1

\* the number of digits at the head of s
RECURSIVE DigitRun(_)
DigitRun(s) == IF Len(s) > 0 /\ s[1] \in Digits THEN 1 + DigitRun(Drop(s, 1)) ELSE 0

\* the number of zeros at the head of d, and at its end
RECURSIVE LeadingZeros(_), TrailingZeros(_)
LeadingZeros(d) == IF At(d, ZeroCode) THEN 1 + LeadingZeros(Drop(d, 1)) ELSE 0
TrailingZeros(d) ==
    IF Len(d) > 0 /\ d[Len(d)] = ZeroCode THEN 1 + TrailingZeros(SubSeq(d, 1, Len(d) - 1)) ELSE 0

\* the natural number written by the digits d
RECURSIVE DigitsValue(_)
DigitsValue(d) ==
    IF Len(d) = 0 THEN 0
    ELSE 10 * DigitsValue(SubSeq(d, 1, Len(d) - 1)) + DigitValue(d[Len(d)])

RECURSIVE Pow10(_)
Pow10(n) == IF n = 0 THEN 1 ELSE 10 * Pow10(n - 1)

\* numbers the model computes with: up to nine significant digits, an
\* exponent of up to four digits, and up to thirty decimal places
MaxNumberDigits == 9
MaxExponentDigits == 4
MaxDecimalPlaces == 30

\* the number written as [-]int[.frac][e[-]exp]
numberValue(neg, int, frac, expNeg, exp) ==
    LET all  == Drop(int \o frac, LeadingZeros(int \o frac))
        tz   == TrailingZeros(all)
        m    == SubSeq(all, 1, Len(all) - tz)
        ed   == Drop(exp, LeadingZeros(exp))
        ex   == IF expNeg THEN 0 - DigitsValue(ed) ELSE DigitsValue(ed)
        e10  == ex - Len(frac) + tz
        sign == IF neg THEN -1 ELSE 1
    IN IF Len(m) = 0 THEN JsNum(0)
       ELSE IF Len(m) > MaxNumberDigits \/ Len(ed) > MaxExponentDigits THEN BeyondRange
       ELSE IF e10 >= 0
            THEN IF Len(m) + e10 <= MaxNumberDigits
                 THEN JsNum(sign * DigitsValue(m) * Pow10(e10))
                 ELSE BeyondRange
       ELSE IF 0 - e10 <= MaxDecimalPlaces THEN JsDec(sign * DigitsValue(m), e10)
       ELSE BeyondRange

\* a number: an optional minus; a single 0, or digits that do not start
\* with 0; an optional fraction of a point and at least one digit; an
\* optional exponent of e or E, an optional sign and at least one digit
ParseNumber(s) ==
    LET neg  == At(s, MinusCode)
        s1   == IF neg THEN Drop(s, 1) ELSE s
        ni   == IF At(s1, ZeroCode) THEN 1 ELSE DigitRun(s1)
        s2   == Drop(s1, ni)
        dot  == At(s2, DotCode)
        nf   == IF dot THEN DigitRun(Drop(s2, 1)) ELSE 0
        s3   == IF dot THEN Drop(s2, 1 + nf) ELSE s2
        hasE == Len(s3) > 0 /\ s3[1] \in ExponentCodes
        s4   == IF hasE THEN Drop(s3, 1) ELSE s3
        sgn  == hasE /\ Len(s4) > 0 /\ s4[1] \in {MinusCode, PlusCode}
        s5   == IF sgn THEN Drop(s4, 1) ELSE s4
        ne   == IF hasE THEN DigitRun(s5) ELSE 0
    IN IF ni = 0 \/ (dot /\ nf = 0) \/ (hasE /\ ne = 0) THEN Fail
       ELSE [ok   |-> TRUE,
             val  |-> numberValue(neg, SubSeq(s1, 1, ni), SubSeq(s2, 2, 1 + nf),
                                  sgn /\ s4[1] = MinusCode, SubSeq(s5, 1, ne)),
             rest |-> Drop(s5, ne)]

\* an array index as a property key: 0, or digits that do not start with 0,
\* below 2^32 - 1
MaxIndexKey == Codes("4294967294")
RECURSIVE DigitsLess(_, _)
DigitsLess(a, b) ==
    IF Len(a) # Len(b) THEN Len(a) < Len(b)
    ELSE IF Len(a) = 0 THEN FALSE
    ELSE IF a[1] # b[1] THEN a[1] < b[1]
    ELSE DigitsLess(Drop(a, 1), Drop(b, 1))
IsIndexKey(k) ==
    /\ Len(k) > 0
    /\ \A i \in 1..Len(k) : k[i] \in Digits
    /\ (Len(k) = 1 \/ k[1] # ZeroCode)
    /\ ~DigitsLess(MaxIndexKey, k)

\* own properties in enumeration order: the array indices in ascending
\* order, then the other keys in the order they were created
OrderKeys(m) ==
    LET IsIndex(x) == IsIndexKey(x.k)
        IsName(x) == ~IsIndexKey(x.k)
        idx == SelectSeq(m, IsIndex)
        Rank(i) == Cardinality({j \in 1..Len(idx) : DigitsLess(idx[j].k, idx[i].k)}) + 1
    IN [r \in 1..Len(idx) |-> idx[CHOOSE i \in 1..Len(idx) : Rank(i) = r]]
           \o SelectSeq(m, IsName)

\* obj[k] = v while an object is read: a key seen before keeps its place
\* and takes the new value
PutMember(m, k, v) ==
    IF \E i \in 1..Len(m) : m[i].k = k
    THEN [i \in 1..Len(m) |-> IF m[i].k = k THEN Member(k, v) ELSE m[i]]
    ELSE Append(m, Member(k, v))

RECURSIVE ParseString(_, _), ParseValue(_), ParseElements(_, _), ParseMembers(_, _)

\* the characters up to the closing quote (acc: code units read so far): an
\* escape stands for its character, a raw control character or a bad escape
\* is a SyntaxError
ParseString(s, acc) ==
    IF Len(s) = 0 THEN Fail
    ELSE IF s[1] = QuoteCode THEN [ok |-> TRUE, val |-> JsStr(acc), rest |-> Drop(s, 1)]
    ELSE IF s[1] \in ControlChars THEN Fail
    ELSE IF s[1] = BackslashCode
         THEN IF Len(s) < 2 THEN Fail
              ELSE IF SimpleEscape(s[2]) >= 0
                   THEN ParseString(Drop(s, 2), Append(acc, SimpleEscape(s[2])))
              ELSE IF s[2] = LowerUCode /\ Len(s) >= 6
                      /\ \A i \in 3..6 : HexValue(s[i]) >= 0
                   THEN ParseString(Drop(s, 6),
                                    Append(acc, 4096 * HexValue(s[3]) + 256 * HexValue(s[4])
                                                + 16 * HexValue(s[5]) + HexValue(s[6])))
              ELSE Fail
    ELSE ParseString(Drop(s, 1), Append(acc, s[1]))

\* what follows an element e of an array (acc: elements read before it): a
\* comma and more elements, or the closing bracket
ElementNext(e, acc) ==
    IF ~e.ok THEN Fail
    ELSE IF At(SkipWs(e.rest), CommaCode)
         THEN ParseElements(Drop(SkipWs(e.rest), 1), Append(acc, e.val))
    ELSE IF At(SkipWs(e.rest), CloseBracketCode)
         THEN [ok |-> TRUE, val |-> JsArr(Append(acc, e.val)), rest |-> Drop(SkipWs(e.rest), 1)]
    ELSE Fail

\* the elements after "[" or after a comma (acc: elements read so far)
ParseElements(s, acc) == ElementNext(ParseValue(s), acc)

\* what follows a property (r: the text after its value, put: the properties
\* read so far): a comma and more properties, or the closing brace
MemberNext(r, put) ==
    IF At(r, CommaCode) THEN ParseMembers(Drop(r, 1), put)
    ELSE IF At(r, CloseBraceCode)
         THEN [ok |-> TRUE, val |-> JsObj(OrderKeys(put)), rest |-> Drop(r, 1)]
    ELSE Fail

\* the value e of the property named key
MemberValue(key, e, acc) ==
    IF ~e.ok THEN Fail ELSE MemberNext(SkipWs(e.rest), PutMember(acc, key, e.val))

\* the colon and the value after the property name k
MemberKey(k, acc) ==
    IF ~k.ok THEN Fail
    ELSE IF ~At(SkipWs(k.rest), ColonCode) THEN Fail
    ELSE MemberValue(k.val.s, ParseValue(Drop(SkipWs(k.rest), 1)), acc)

\* the properties after "{" or after a comma (acc: properties read so far):
\* a string literal, a colon and a value each
ParseMembers(s, acc) ==
    IF ~At(SkipWs(s), QuoteCode) THEN Fail
    ELSE MemberKey(ParseString(Drop(SkipWs(s), 1), <<>>), acc)

\* one JSON value at the head of text, after any whitespace
ParseValue(text) ==
    LET s == SkipWs(text) IN
    IF StartsWith(s, NullText) THEN [ok |-> TRUE, val |-> JsNull, rest |-> Drop(s, 4)]
    ELSE IF StartsWith(s, TrueText) THEN [ok |-> TRUE, val |-> JsBool(TRUE), rest |-> Drop(s, 4)]
    ELSE IF StartsWith(s, FalseText) THEN [ok |-> TRUE, val |-> JsBool(FALSE), rest |-> Drop(s, 5)]
    ELSE IF At(s, QuoteCode) THEN ParseString(Drop(s, 1), <<>>)
    ELSE IF At(s, OpenBracketCode)
         THEN LET t == SkipWs(Drop(s, 1))
              IN IF At(t, CloseBracketCode)
                 THEN [ok |-> TRUE, val |-> JsArr(<<>>), rest |-> Drop(t, 1)]
                 ELSE ParseElements(t, <<>>)
    ELSE IF At(s, OpenBraceCode)
         THEN LET t == SkipWs(Drop(s, 1))
              IN IF At(t, CloseBraceCode)
                 THEN [ok |-> TRUE, val |-> JsObj(<<>>), rest |-> Drop(t, 1)]
                 ELSE ParseMembers(t, <<>>)
    ELSE IF At(s, MinusCode) \/ (Len(s) > 0 /\ s[1] \in Digits) THEN ParseNumber(s)
    ELSE Fail

\* the text is one JSON value when nothing but whitespace follows the value
WholeText(r) ==
    IF r.ok /\ Len(SkipWs(r.rest)) = 0 THEN [threw |-> FALSE, val |-> r.val]
    ELSE [threw |-> TRUE, val |-> JsNull]

\* JSON.parse(text): the value, or a SyntaxError when text is not one JSON value
JSONparse(text) == WholeText(ParseValue(text))

-----------------------------------------------------------------------------
(* Cache handler: cache-handler.mjs *)
(* The ioredis client is the environment: it emits 'connect' and 'error'    *)
(* whenever it likes, answers the commands it was handed one at a time,     *)
(* oldest first, and each answer is a reply or a rejection. The backend     *)
(* drops an entry when its time to live is over, and other clients of the   *)
(* backend may write entries of their own.                                  *)

DefaultTtl == 86400
Tags == {"t", "zz"}

\* context.tags of a set call: untagged, or tagged "t"
TagSets == {{}, {"t"}}

NoContext == [def |-> FALSE, revalidate |-> JsUndef]
Context(r) == [def |-> TRUE, revalidate |-> r]
Contexts == {NoContext, Context(JsNum(0)), Context(JsNum(60))}

\* a string with a tab, U+0001, a quote and a backslash: every kind of escape
EscapedString == JsStr(<<9, 1, QuoteCode, BackslashCode>>)
MixedArray == JsArr(<<JsNum(0), JsStr(<<>>), JsBool(FALSE), JsNull>>)


\* a cache entry as the framework hands it to set(): an object with a string,
\* a string of characters that need escaping, a number and an array
PageEntry ==
    JsObj(<<Member(Codes("kind"), JsStr(Codes("PAGE"))),
            Member(Codes("html"), EscapedString),
            Member(Codes("status"), JsNum(200)),
            Member(Codes("tags"), MixedArray)>>)

\* the values handed to set(): serialisable ones, undefined (JSON.stringify
\* returns undefined for it) and a BigInt (JSON.stringify throws)
CacheValues == {JsNull, PageEntry, JsUndef, JsBigInt}

\* a value JSON represents: no BigInt and no undefined anywhere in it
RECURSIVE Serialisable(_)
Serialisable(v) ==
    CASE v.t \in {"bigint", "undef", "beyond"} -> FALSE
      [] v.t = "arr" -> \A i \in 1..Len(v.a) : Serialisable(v.a[i])
      [] v.t = "obj" -> \A i \in 1..Len(v.m) : Serialisable(v.m[i].v)
      [] OTHER -> TRUE

\* texts written by other clients of the backend: not JSON (an open brace, a
\* string literal with a raw tab), and the empty string
OpenBraceText == <<Code("{")>>
RawTabText == <<QuoteCode, 9, QuoteCode>>
ForeignTexts == {OpenBraceText, RawTabText, <<>>}

\* this.redisEnabled && this.redis
isAvailable(enabled, client) == enabled /\ client # "null"

\* new Redis(...) inside try/catch, when REDIS_URL is truthy
constructor(e, throws) ==
    IF Truthy(e["REDIS_URL"])
    THEN IF throws THEN [redis |-> "null", redisEnabled |-> FALSE]
                   ELSE [redis |-> "client", redisEnabled |-> FALSE]
    ELSE [redis |-> "null", redisEnabled |-> FALSE]

\* outcomes of a try block: it returned a value, fell through, or threw
Return(v) == [kind |-> "return", val |-> v]
Fall == [kind |-> "fall", val |-> JsUndef]
Throw == [kind |-> "throw", val |-> JsUndef]

\* catch (error) { console.warn(...) }: the error is logged and dropped
CatchRethrows(outcome) == outcome
catchAndWarn(outcome) == IF outcome.kind = "throw" THEN Fall ELSE outcome

\* how an operation ends: what the caller gets, and whether it was an exception
Completion(p, op, out, fallback, failure, avail, matched) ==
    [p |-> p, op |-> op,
     ret |-> IF out.kind = "return" THEN out.val ELSE fallback,
     raised |-> out.kind = "throw",
     failure |-> failure,
     available |-> avail,
     matched |-> matched]

\* a command handed to the client; sentAvailable records the state it was sent in
Command(p, cmd, key, keys, text, ttl, avail) ==
    [p |-> p, cmd |-> cmd, key |-> key, keys |-> keys, text |-> text, ttl |-> ttl,
     sentAvailable |-> avail]

\* the rest of get() once redis.get(key) settled: parse a truthy reply
GetTryReturnsText(reply) ==
    IF reply.err THEN Throw
    ELSE IF textTruthy(reply.val) THEN Return(JsStr(reply.val.str))
    ELSE Fall
returnParsed(parsed) == IF parsed.threw THEN Throw ELSE Return(parsed.val)
getTry(reply) ==
    IF reply.err THEN Throw
    ELSE IF textTruthy(reply.val) THEN returnParsed(JSONparse(reply.val.str))
    ELSE Fall

\* const ttl = context?.revalidate || 60 * 60 * 24
ttlOf(ctx) ==
    LET r == IF ctx.def THEN ctx.revalidate ELSE JsUndef
    IN IF truthy(r) THEN r.n ELSE DefaultTtl

\* redis.keys(`*${tag}*`): the keys that contain the tag
Contains(s, sub) ==
    \E i \in 1..(Len(s) - Len(sub) + 1) : SubSeq(s, i, i + Len(sub) - 1) = sub
matchingKeys(st, tag) == {k \in Keys : st[k].present /\ Contains(k, tag)}

\* the reply to SETEX
OkText == Text(<<Code("O"), Code("K")>>)

\* what the backend does with a command: the new contents and the reply
serverExec(st, c) ==
    CASE c.cmd = "get" ->
            [store |-> st, keys |-> {},
             val |-> IF st[c.key].present THEN Text(st[c.key].text) ELSE NoText]
      [] c.cmd = "setex" ->
            [store |-> [st EXCEPT ![c.key] = [present |-> TRUE, text |-> c.text, ttl |-> c.ttl]],
             keys |-> {}, val |-> OkText]
      [] c.cmd = "keys" ->
            [store |-> st, keys |-> matchingKeys(st, c.key), val |-> NoText]
      [] c.cmd = "del" ->
            [store |-> [k \in Keys |-> IF k \in c.keys THEN Missing ELSE st[k]],
             keys |-> {}, val |-> NoText]

CallRec(op, key, data, stage) == [op |-> op, key |-> key, data |-> data, stage |-> stage]

\* an argument of a command as the client writes it: undefined is written
\* as the empty string
toArg(serialized) == IF serialized.def THEN serialized.text ELSE <<>>

\* the try block of set() up to its await: the command to send, or a throw
setTry(key, data, ctx) ==
    LET ttl == ttlOf(ctx)
        serialized == JSONstringify(data)
    IN IF serialized.threw THEN [threw |-> TRUE, key |-> key, ttl |-> ttl, text |-> <<>>]
       ELSE [threw |-> FALSE, key |-> key, ttl |-> ttl, text |-> toArg(serialized)]

\* the try block of revalidateTag() after redis.keys settled:
\* if (keys.length > 0) await this.redis.del(...keys)
revalidateAfterKeys(reply) ==
    IF reply.err THEN [next |-> "throw", keys |-> {}]
    ELSE IF Cardinality(reply.keys) > 0 THEN [next |-> "del", keys |-> reply.keys]
    ELSE [next |-> "done", keys |-> {}]

\* an awaited command that settled: the try block falls through or throws
afterAwait(reply) == IF reply.err THEN Throw ELSE Fall

\* retryStrategy: (times) => times > 3 ? null : Math.min(times * 100, 3000)
MaxRetryTimes == 3
RetryStep == 100
MaxDelay == 3000
Min(a, b) == IF a < b THEN a ELSE b
RetryStrategyNeverGivesUp(times) ==
    [retry |-> TRUE, delay |-> Min(times * RetryStep, MaxDelay)]
retryStrategy(times) ==
    IF times > MaxRetryTimes
    THEN [retry |-> FALSE, delay |-> 0]
    ELSE [retry |-> TRUE, delay |-> Min(times * RetryStep, MaxDelay)]

\* reconnectOnError: (err) => false: an error reply never causes a reconnect
reconnectOnError == FALSE

\* the 'connect' listener: this.redisEnabled = true
ConnectListenerKeepsFlag(enabled) == enabled
connectListener(enabled) == TRUE

\* the 'error' listener: this.redisEnabled = false
errorListener(enabled) == FALSE

\* new CustomCacheHandler(options); new Redis(url, options) starts connecting
Construct ==
    /\ ~constructed
    /\ \E throws \in BOOLEAN :
          LET c == constructor(env, throws)
          IN /\ redis' = c.redis
             /\ redisEnabled' = c.redisEnabled
             /\ conn' = IF c.redis = "client" THEN "connecting" ELSE "none"
    /\ constructed' = TRUE
    /\ UNCHANGED <<retryAttempts, attempts, delays, lastEvent>>
    /\ UNCHANGED <<dbCallVars, authVars, env, variant, featVars, cronVars, dbVars, healthVars>>
    /\ UNCHANGED <<store, wire, call, res, rt, tagVars>>

\* the client emits 'connect': the connection is established, the client's
\* retry counter starts over, and this.redis.on('connect', ...) runs
OnConnect ==
    /\ constructed
    /\ redis = "client"
    /\ conn \in {"connecting", "ready"}
    /\ redisEnabled' = connectListener(redisEnabled)
    /\ lastEvent' = "connect"
    /\ conn' = "ready"
    /\ retryAttempts' = 0
    /\ rt' = RtNone
    /\ UNCHANGED <<attempts, delays>>
    /\ UNCHANGED <<dbCallVars, authVars, env, variant, featVars, cronVars, dbVars, healthVars>>
    /\ UNCHANGED <<constructed, redis, store, wire, call, res, tagVars>>

\* the client emits 'error' and this.redis.on('error', ...) runs
OnError ==
    /\ constructed
    /\ redis = "client"
    /\ redisEnabled' = errorListener(redisEnabled)
    /\ lastEvent' = "error"
    /\ rt' = RtNone
    /\ UNCHANGED <<conn, retryAttempts, attempts, delays>>
    /\ UNCHANGED <<dbCallVars, authVars, env, variant, featVars, cronVars, dbVars, healthVars>>
    /\ UNCHANGED <<constructed, redis, store, wire, call, res, tagVars>>

\* get(key) up to its await, or to its return when the store is not available
CallGet(p, k) ==
    /\ constructed
    /\ call[p].op = "idle"
    /\ IF isAvailable(redisEnabled, redis)
       THEN /\ wire' = Append(wire, Command(p, "get", k, {}, <<>>, 0, TRUE))
            /\ call' = [call EXCEPT ![p] = CallRec("get", k, JsUndef, "get")]
            /\ rt' = IF rt.phase = "set" /\ rt.key = k /\ wire = <<>>
                     THEN [rt EXCEPT !.phase = "get", !.p = p] ELSE RtNone
            /\ UNCHANGED res
       ELSE /\ res' = Completion(p, "get", Fall, JsNull, "none", FALSE, 0)
            /\ rt' = RtNone
            /\ UNCHANGED <<wire, call>>
    /\ UNCHANGED <<connVars, dbCallVars, authVars, env, variant, featVars, cronVars, dbVars, healthVars>>
    /\ UNCHANGED <<constructed, redis, redisEnabled, store, tagVars>>

\* set(key, data, context) up to its await, or to its return; `tags` is
\* context.tags, which set never reads
CallSet(p, k, v, ctx, tags) ==
    /\ constructed
    /\ call[p].op = "idle"
    /\ IF isAvailable(redisEnabled, redis)
       THEN LET t == setTry(k, v, ctx)
            IN IF t.threw
               THEN /\ res' = Completion(p, "set", catchAndWarn(Throw), JsUndef,
                                         "stringify", TRUE, 0)
                    /\ UNCHANGED <<wire, call, req>>
               ELSE /\ wire' = Append(wire, Command(p, "setex", t.key, {}, t.text, t.ttl, TRUE))
                    /\ call' = [call EXCEPT ![p] = CallRec("set", k, v, "setex")]
                    /\ req' = [req EXCEPT ![p] = [ctx |-> ctx, tags |-> tags, tag |-> ""]]
                    /\ UNCHANGED res
       ELSE /\ res' = Completion(p, "set", Fall, JsUndef, "none", FALSE, 0)
            /\ UNCHANGED <<wire, call, req>>
    /\ rt' = RtNone
    /\ inval' = NoInval
    /\ UNCHANGED tagged
    /\ UNCHANGED <<connVars, dbCallVars, authVars, env, variant, featVars, cronVars, dbVars, healthVars>>
    /\ UNCHANGED <<constructed, redis, redisEnabled, store>>

\* revalidateTag(tag) up to its first await, or to its return
CallRevalidateTag(p, tag) ==
    /\ constructed
    /\ call[p].op = "idle"
    /\ IF isAvailable(redisEnabled, redis)
       THEN /\ wire' = Append(wire, Command(p, "keys", tag, {}, <<>>, 0, TRUE))
            /\ call' = [call EXCEPT ![p] = CallRec("revalidateTag", tag, JsUndef, "keys")]
            /\ req' = [req EXCEPT ![p] = [NoReq EXCEPT !.tag = tag]]
            /\ UNCHANGED res
       ELSE /\ res' = Completion(p, "revalidateTag", Fall, JsUndef, "none", FALSE, 0)
            /\ UNCHANGED <<wire, call, req>>
    /\ rt' = RtNone
    /\ inval' = NoInval
    /\ UNCHANGED tagged
    /\ UNCHANGED <<connVars, dbCallVars, authVars, env, variant, featVars, cronVars, dbVars, healthVars>>
    /\ UNCHANGED <<constructed, redis, redisEnabled, store>>

\* delete(key) up to its await, or to its return
CallDelete(p, k) ==
    /\ constructed
    /\ call[p].op = "idle"
    /\ IF isAvailable(redisEnabled, redis)
       THEN /\ wire' = Append(wire, Command(p, "del", "", {k}, <<>>, 0, TRUE))
            /\ call' = [call EXCEPT ![p] = CallRec("delete", k, JsUndef, "del")]
            /\ UNCHANGED res
       ELSE /\ res' = Completion(p, "delete", Fall, JsUndef, "none", FALSE, 0)
            /\ UNCHANGED <<wire, call>>
    /\ rt' = RtNone
    /\ UNCHANGED tagVars
    /\ UNCHANGED <<connVars, dbCallVars, authVars, env, variant, featVars, cronVars, dbVars, healthVars>>
    /\ UNCHANGED <<constructed, redis, redisEnabled, store>>

\* how get() ends once its try block ran: body is the outcome of the block
GetCompletion(p, reply, body) ==
    Completion(p, "get", catchAndWarn(body), JsNull,
               IF reply.err THEN "reject"
               ELSE IF body.kind = "throw" THEN "parse" ELSE "none",
               TRUE, 0)

\* The oldest command settles with `reply`, and the operation that awaited it
\* runs on to its next await or to its return.
Resume(reply) ==
    LET h == Head(wire)
        p == h.p
        c == call[p]
        failure == IF reply.err THEN "reject" ELSE "none"
        Finish(r) == /\ res' = r
                     /\ call' = [call EXCEPT ![p] = NoCall]
                     /\ wire' = Tail(wire)
    IN CASE c.op = "get" ->
              Finish(GetCompletion(p, reply, getTry(reply)))
         [] c.op = "set" ->
              Finish(Completion(p, "set", catchAndWarn(afterAwait(reply)), JsUndef,
                                failure, TRUE, 0))
         [] c.op = "delete" ->
              Finish(Completion(p, "delete", catchAndWarn(afterAwait(reply)), JsUndef,
                                failure, TRUE, 0))
         [] c.op = "revalidateTag" /\ c.stage = "del" ->
              Finish(Completion(p, "revalidateTag", catchAndWarn(afterAwait(reply)), JsUndef,
                                failure, TRUE, Cardinality(h.keys)))
         [] c.op = "revalidateTag" /\ c.stage = "keys" ->
              LET n == revalidateAfterKeys(reply)
              IN IF n.next = "del"
                 THEN /\ wire' = Append(Tail(wire),
                                        Command(p, "del", "", n.keys, <<>>, 0,
                                                isAvailable(redisEnabled, redis)))
                      /\ call' = [call EXCEPT ![p].stage = "del"]
                      /\ UNCHANGED res
                 ELSE Finish(Completion(p, "revalidateTag",
                                        catchAndWarn(IF n.next = "throw" THEN Throw ELSE Fall),
                                        JsUndef, failure, TRUE, 0))

\* the backend executes the oldest command and its reply reaches the handler
ReplyOk ==
    /\ wire # <<>>
    /\ redisServer # "hang"
    /\ conn = "ready"
    /\ LET h == Head(wire)
           ex == serverExec(store, h)
       IN /\ store' = ex.store
          /\ Resume([err |-> FALSE, val |-> ex.val, keys |-> ex.keys])
          /\ rt' = IF call[h.p].op = "set" /\ redisEnabled /\ Len(wire) = 1
                   THEN [RtNone EXCEPT !.phase = "set", !.key = h.key, !.val = call[h.p].data]
                   ELSE IF call[h.p].op = "get" /\ rt.phase = "get" /\ rt.p = h.p
                   THEN [rt EXCEPT !.phase = "done", !.ret = res'.ret]
                   ELSE RtNone
          /\ tagged' = CASE h.cmd = "setex" -> [tagged EXCEPT ![h.key] = req[h.p].tags]
                          [] h.cmd = "del" -> [k \in Keys |-> IF k \in h.keys THEN {} ELSE tagged[k]]
                          [] OTHER -> tagged
          /\ req' = IF call'[h.p].op = "idle" THEN [req EXCEPT ![h.p] = NoReq] ELSE req
          /\ inval' = IF call[h.p].op = "revalidateTag" /\ call'[h.p].op = "idle"
                      THEN [tag |-> req[h.p].tag,
                            collateral |-> {k \in h.keys : /\ h.cmd = "del"
                                                           /\ store[k].present
                                                           /\ req[h.p].tag \notin tagged[k]},
                            missed |-> {k \in Keys \ h.keys : /\ h.cmd = "del"
                                                              /\ store[k].present
                                                              /\ Contains(k, req[h.p].tag)}]
                      ELSE inval
    /\ UNCHANGED <<connVars, dbCallVars, authVars, env, variant, featVars, cronVars, dbVars, healthVars>>
    /\ UNCHANGED <<constructed, redis, redisEnabled>>

\* the oldest command is rejected: an error reply, or the connection was closed
ReplyError ==
    /\ wire # <<>>
    /\ redisServer # "hang"
    /\ Resume([err |-> TRUE, val |-> NoText, keys |-> {}])
    /\ rt' = RtNone
    /\ req' = [req EXCEPT ![Head(wire).p] = NoReq]
    /\ UNCHANGED <<tagged, inval>>
    /\ UNCHANGED <<connVars, dbCallVars, authVars, env, variant, featVars, cronVars, dbVars, healthVars>>
    /\ UNCHANGED <<constructed, redis, redisEnabled, store>>

\* the backend drops an entry whose time to live is over
Expire(k) ==
    /\ store[k].present
    /\ store' = [store EXCEPT ![k] = Missing]
    /\ tagged' = [tagged EXCEPT ![k] = {}]
    /\ rt' = RtNone
    /\ UNCHANGED <<connVars, dbCallVars, authVars, env, variant, featVars, cronVars, dbVars, healthVars>>
    /\ UNCHANGED <<constructed, redis, redisEnabled, wire, call, res, req, inval>>

\* another client of the backend writes under a key of the handler
ForeignWrite(k, text) ==
    /\ constructed
    /\ store[k] # [present |-> TRUE, text |-> text, ttl |-> DefaultTtl]
    /\ store' = [store EXCEPT ![k] = [present |-> TRUE, text |-> text, ttl |-> DefaultTtl]]
    /\ tagged' = [tagged EXCEPT ![k] = {}]
    /\ rt' = RtNone
    /\ UNCHANGED <<connVars, dbCallVars, authVars, env, variant, featVars, cronVars, dbVars, healthVars>>
    /\ UNCHANGED <<constructed, redis, redisEnabled, wire, call, res, req, inval>>

Get(P) == \E p \in P, k \in Keys : CallGet(p, k)
Set(P, V) ==
    \E p \in P, k \in Keys, v \in V, ctx \in Contexts, tags \in TagSets :
        CallSet(p, k, v, ctx, tags)
RevalidateTag(P) == \E p \in P, tag \in Tags : CallRevalidateTag(p, tag)
Delete(P) == \E p \in P, k \in Keys : CallDelete(p, k)
Expiry == \E k \in Keys : Expire(k)
Foreign == \E k \in Keys, text \in ForeignTexts : ForeignWrite(k, text)

CacheInit ==
    /\ variant = "getter"
    /\ \E r \in {Undefined, Str(""), Str("redis://r")} :
          env = [BaseEnv EXCEPT !["REDIS_URL"] = r]
    /\ FeatIdle
    /\ CronIdle
    /\ DbIdle
    /\ HealthIdle
    /\ CacheIdle
    /\ AuthIdle
    /\ ConnIdle
    /\ DbCallIdle

\* one request at a time uses the handler
CacheNext ==
    \/ Construct \/ OnConnect \/ OnError
    \/ Get({1}) \/ Set({1}, CacheValues) \/ RevalidateTag({1}) \/ Delete({1})
    \/ ReplyOk \/ ReplyError
    \/ Expiry \/ Foreign

SpecCache == CacheInit /\ [][CacheNext]_vars

\* code units that are written and read in different ways: control characters
\* with and without a simple escape, the space, the quote, the slash, the
\* backslash, letters, U+007F, a high and a low surrogate, U+FFFF
RoundTripCodeUnits == {0, 8, 9, 10, 11, 12, 13, 31, 32, QuoteCode, 47, BackslashCode,
                       LowerUCode, HexDigits[11], 127, 55357, 56832, 65535}
RoundTripStrings ==
    {<<>>} \cup {<<a>> : a \in RoundTripCodeUnits}
           \cup {<<a, b>> : a \in RoundTripCodeUnits, b \in RoundTripCodeUnits}
RoundTripValues ==
    {JsNull, JsBool(TRUE), JsBool(FALSE), JsArr(<<>>), JsArr(<<JsArr(<<JsNull>>), JsBool(FALSE)>>)}
        \cup {JsNum(n) : n \in {0, 1, 9, 10, 101, 86400, -1, -120, 999999999}}
        \cup {JsDec(15, -1), JsDec(-1, -3), JsDec(1, -6), JsDec(1, -7), JsDec(-123, -9),
              JsDec(123456789, -4)}
        \cup {JsStr(x) : x \in RoundTripStrings}
        \cup {JsArr(<<JsStr(x), JsNum(12)>>) : x \in RoundTripStrings}
        \cup {JsObj(<<>>), PageEntry,
              JsObj(<<Member(Codes("7"), JsNull), Member(Codes("10"), PageEntry),
                      Member(Codes("b"), JsObj(<<>>)), Member(Codes("01"), JsDec(5, -1))>>)}
        \cup {JsObj(<<Member(x, JsArr(<<JsObj(<<Member(x, JsBool(TRUE))>>)>>)),
                      Member(Codes("kind"), JsStr(x))>>) : x \in RoundTripStrings}

\* what get's try block makes of the text set's try block hands to SETEX
StoredThenRead(v) == getTry([err |-> FALSE, val |-> Text(setTry("k", v, NoContext).text)])

\* every value of RoundTripValues is read back as it was written
SerialisableValuesReadBack == \A v \in RoundTripValues : StoredThenRead(v) = Return(v)

\* C1: a set(k, v) that the backend stored while the store was marked healthy,
\* directly followed by get(k) with nothing in between and a successful reply,
\* returns a value equal to v, for every serialisable v (also: the text set
\* writes for v is read back by get as v, for strings of every kind of code
\* unit, numbers, booleans, null, arrays and objects); a get called while the
\* store is not available returns null and raises nothing.
C1_RoundTrip ==
    /\ (rt.phase = "done" /\ Serialisable(rt.val)) => rt.ret = rt.val
    /\ (res.op = "get" /\ ~res.available) => (res.ret = JsNull /\ ~res.raised)
    /\ SerialisableValuesReadBack

C1_Witness ==
    /\ rt.phase = "done"
    /\ rt.val = PageEntry
    /\ rt.ret = rt.val
    /\ res.op = "get"

\* texts that are not JSON: cut short, with a misplaced or missing token,
\* a malformed number, literal or escape, or a raw control character in a
\* string literal
UnparsableTexts ==
    {Codes(x) : x \in {"{", "[", "[1,]", "[1 2]", "{\"a\":}", "{\"a\" 1}", "{a:1}",
                       "{\"a\":1,}", "{\"a\":1", "nul", "null null", "undefined", "NaN",
                       "'a'", "01", "1.", "-", "+1", ".5", "1e", "0x10", "\"a",
                       "\"\\x\"", "\"\\u12\"", "\f1", " "}}
        \cup {<<QuoteCode, c, QuoteCode>> : c \in ControlChars}

\* values JSON.stringify throws on: a BigInt, alone or inside an array or object
UnserialisableValues ==
    {JsBigInt, JsArr(<<JsNull, JsBigInt>>), JsObj(<<Member(Codes("n"), JsArr(<<JsBigInt>>))>>)}

\* the try block of get throws on every text of UnparsableTexts and the
\* try block of set on every value of UnserialisableValues, and neither
\* exception gets past the catch block: get returns null, set undefined
FailuresAreCaught ==
    /\ \A t \in UnparsableTexts :
          LET out == getTry([err |-> FALSE, val |-> Text(t)])
              end == Completion(1, "get", catchAndWarn(out), JsNull, "parse", TRUE, 0)
          IN out = Throw /\ ~end.raised /\ end.ret = JsNull
    /\ \A v \in UnserialisableValues :
          LET end == Completion(1, "set", catchAndWarn(Throw), JsUndef, "stringify", TRUE, 0)
          IN setTry("k", v, NoContext).threw /\ ~end.raised /\ end.ret = JsUndef

\* C2: whatever the backend does (a rejected command, a payload that is not
\* JSON, a value JSON.stringify rejects, a tag that matches no key), no cache
\* operation ends with an exception: get returns null on every failure and on
\* the no-op path, and set, revalidateTag and delete return undefined.
C2_NoThrow ==
    /\ res.op # "none" =>
            /\ ~res.raised
            /\ (res.op = "get" /\ (res.failure # "none" \/ ~res.available)) => res.ret = JsNull
            /\ res.op # "get" => res.ret = JsUndef
    /\ FailuresAreCaught

C2_Witness ==
    /\ res.op = "get"
    /\ res.failure = "parse"
    /\ res.ret = JsNull

\* C3: no command is handed to the client in a state where the store is not
\* available (redisEnabled false, or no client).
C3_NoCommandWhileUnavailable ==
    \A i \in 1..Len(wire) : wire[i].sentAvailable

\* C14: once a revalidateTag(t) has completed without a failure, no entry that
\* set wrote with t among its tags is still stored (so get returns null for
\* it), and the call deleted no entry that was not written with tag t.
C14_TagInvalidation ==
    inval.tag # "" =>
        /\ \A k \in Keys : inval.tag \in tagged[k] => ~store[k].present
        /\ inval.collateral = {}

\* the expiry the caller supplied with a set call, the default when none
SuppliedExpiry(ctx) ==
    IF ctx.def /\ ctx.revalidate.t = "num" THEN ctx.revalidate.n ELSE DefaultTtl

\* C15: every setex that set hands to the client carries exactly the expiry
\* the caller supplied (0 included), and 86400 only when none was supplied.
C15_ExpiryAsSupplied ==
    \A i \in 1..Len(wire) :
        wire[i].cmd = "setex" => wire[i].ttl = SuppliedExpiry(req[wire[i].p].ctx)

-----------------------------------------------------------------------------
(* The handler in front of a backend that may hang: it keeps the connection *)
(* open, accepts commands and never answers. The Redis options of the       *)
(* constructor set maxRetriesPerRequest, retryStrategy and reconnectOnError, *)
(* which act on a lost connection; no commandTimeout is set and no operation *)
(* races its await against a timer, so nothing but an answer settles a       *)
(* pending command. A backend that does not hang answers every command.      *)

CacheHangInit ==
    /\ variant = "getter"
    /\ env = [BaseEnv EXCEPT !["REDIS_URL"] = Str("redis://r")]
    /\ FeatIdle
    /\ CronIdle
    /\ prisma = "null"
    /\ dbExport = "unloaded"
    /\ canConstruct = TRUE
    /\ clientsCreated = 0
    /\ dbServer = "up"
    /\ redisServer \in {"up", "hang"}
    /\ HealthIdle
    /\ CacheIdle
    /\ AuthIdle
    /\ ConnIdle
    /\ DbCallIdle

CacheHangNext ==
    \/ Construct \/ OnConnect \/ OnError
    \/ Get({1}) \/ Set({1}, {JsNull}) \/ RevalidateTag({1}) \/ Delete({1})
    \/ ReplyOk \/ ReplyError

SpecCacheHang ==
    CacheHangInit /\ [][CacheHangNext]_vars /\ WF_vars(ReplyOk \/ ReplyError)

\* C20: every cache operation that was started eventually returns, also when
\* the backend accepted its command and never answers.
C20_EventuallyReturns ==
    \A p \in Procs : (call[p].op # "idle") ~> (call[p].op = "idle")

-----------------------------------------------------------------------------
(* Authentication wiring: lib/auth/config, lib/auth and the auth route.     *)
(* lib/auth/config builds the provider list and authConfig and calls        *)
(* NextAuth(authConfig) when it is evaluated. It is evaluated on its first  *)
(* import: by the auth route's require() when features.auth is true, and by *)
(* lib/auth, which imports it statically and is itself imported statically  *)
(* by the dashboard page and by the sign-in page.                           *)

\* envSchema.parse: strings pass unchanged, NODE_ENV defaults to 'development'
parsedEnv(e) ==
    [e EXCEPT !["NODE_ENV"] = IF @.def THEN @ ELSE Str("development")]

\* providers: one push per provider whose capability is true, in source order
ProvidersAnyCredential(f, e) ==
    LET Cfg(id, a, b) == [id |-> id, clientId |-> e[a], clientSecret |-> e[b]]
        Either(a, b) == Truthy(e[a]) \/ Truthy(e[b])
        p0 == <<>>
        p1 == IF Either("GITHUB_ID", "GITHUB_SECRET")
              THEN Append(p0, Cfg("github", "GITHUB_ID", "GITHUB_SECRET")) ELSE p0
        p2 == IF Either("GOOGLE_ID", "GOOGLE_SECRET")
              THEN Append(p1, Cfg("google", "GOOGLE_ID", "GOOGLE_SECRET")) ELSE p1
        p3 == IF Either("DISCORD_ID", "DISCORD_SECRET")
              THEN Append(p2, Cfg("discord", "DISCORD_ID", "DISCORD_SECRET")) ELSE p2
    IN p3
providers(f, e) ==
    LET Cfg(id, a, b) == [id |-> id, clientId |-> e[a], clientSecret |-> e[b]]
        p0 == <<>>
        p1 == IF f.githubProvider
              THEN Append(p0, Cfg("github", "GITHUB_ID", "GITHUB_SECRET")) ELSE p0
        p2 == IF f.googleProvider
              THEN Append(p1, Cfg("google", "GOOGLE_ID", "GOOGLE_SECRET")) ELSE p1
        p3 == IF f.discordProvider
              THEN Append(p2, Cfg("discord", "DISCORD_ID", "DISCORD_SECRET")) ELSE p2
    IN p3

\* authConfig of the hybrid variant: adapter: db ? PrismaAdapter(db) : undefined,
\* session.strategy: getAuthStrategy(), with db the result of getDb()
hybridAuthConfig(f, db, e) ==
    [state    |-> "loaded",
     adapter  |-> db # "null",
     strategy |-> getAuthStrategyOptional(f),
     providers |-> providers(f, e)]

\* authConfig of the mandatory variant:
\* adapter: features.auth ? PrismaAdapter(db) : undefined, session.strategy: 'database'
mandatoryAuthConfig(f, db, e) ==
    [state    |-> "loaded",
     adapter  |-> f.auth,
     strategy |-> "database",
     providers |-> providers(f, e)]

\* the modules lib/auth/config imports have been evaluated
ConfigImportsLoaded == loaded /\ dbExport # "unloaded" /\ envState # "unloaded"

\* Evaluation of lib/auth/config on its first import; a later import gets the
\* module as it is. The import of lib/env comes first: when it throws, the
\* body does not run.
EvaluateAuthConfig ==
    IF authConfig.state # "unloaded"
    THEN UNCHANGED <<authConfig, nextAuthCalls, prisma, clientsCreated>>
    ELSE IF envState = "throw"
    THEN /\ authConfig' = [state |-> "failed"]
         /\ UNCHANGED <<nextAuthCalls, prisma, clientsCreated>>
    ELSE LET f == Features(variant, features, env)
             e == parsedEnv(env)
         IN /\ nextAuthCalls' = nextAuthCalls + 1
            /\ IF variant = "mandatory"
               THEN /\ authConfig' = mandatoryAuthConfig(f, dbExport, e)
                    /\ UNCHANGED <<prisma, clientsCreated>>
               ELSE LET g == getDb(f, prisma, canConstruct)
                    IN /\ authConfig' = hybridAuthConfig(f, g.ret, e)
                       /\ prisma' = g.prisma
                       /\ clientsCreated' = clientsCreated + g.created

\* evaluation of the auth route module: GET and POST are bound to
\* notConfigured when features.auth is false, else to the NextAuth handler
LoadAuthRoute ==
    /\ loaded
    /\ authRoute = "unloaded"
    /\ IF ~Features(variant, features, env).auth
       THEN /\ authRoute' = "notConfigured"
            /\ UNCHANGED <<authConfig, nextAuthCalls, prisma, clientsCreated>>
       ELSE /\ ConfigImportsLoaded
            /\ EvaluateAuthConfig
            /\ authRoute' = IF authConfig'.state = "loaded" THEN "handler" ELSE "failed"
    /\ UNCHANGED <<connVars, dbCallVars, env, variant, featVars, cronVars, healthVars, cacheVars>>
    /\ UNCHANGED <<dbExport, canConstruct, dbServer, redisServer, authImporter, authResp>>

\* notConfigured(): 404 { error: 'Authentication not configured' }
notConfigured == [status |-> 404, body |-> "Authentication not configured"]

\* a request to the auth route: GET and POST are the same function
AuthRequest(method) ==
    /\ authRoute \in {"notConfigured", "handler"}
    /\ authResp' = IF authRoute = "notConfigured"
                   THEN [method |-> method, status |-> notConfigured.status,
                         body |-> notConfigured.body]
                   ELSE [method |-> method, status |-> 200, body |-> "NextAuth"]
    /\ UNCHANGED <<connVars, dbCallVars, env, variant, featVars, cronVars, dbVars, healthVars, cacheVars>>
    /\ UNCHANGED <<authRoute, authConfig, nextAuthCalls, authImporter>>

AuthGet == AuthRequest("GET")
AuthPost == AuthRequest("POST")

\* import of lib/auth by a page module: import { authConfig } from './config'
LoadAuthIndex(importer) ==
    /\ ConfigImportsLoaded
    /\ authImporter = "none"
    /\ authImporter' = importer
    /\ EvaluateAuthConfig
    /\ UNCHANGED <<connVars, dbCallVars, env, variant, featVars, cronVars, healthVars, cacheVars>>
    /\ UNCHANGED <<dbExport, canConstruct, dbServer, redisServer, authRoute, authResp>>

\* import { auth } from '@/lib/auth' at the top of the dashboard page
LoadDashboardPage == LoadAuthIndex("dashboard")

\* import { auth } from '@/lib/auth' at the top of the sign-in page
LoadSignInPage == LoadAuthIndex("signin")

AuthEnvs ==
    {[BaseEnv EXCEPT !["NEXTAUTH_SECRET"] = au, !["DATABASE_URL"] = db,
                     !["REDIS_URL"] = rd,
                     !["GITHUB_ID"] = gi, !["GITHUB_SECRET"] = gs,
                     !["GOOGLE_ID"] = oi, !["GOOGLE_SECRET"] = os,
                     !["DISCORD_ID"] = di, !["DISCORD_SECRET"] = ds] :
        au \in {Undefined, Str(""), Str(Secret32)},
        db \in {Undefined, Str("postgresql://db")},
        rd \in {Undefined, Str("redis://r")},
        gi \in {Undefined, Str(""), Str("id")}, gs \in {Undefined, Str(""), Str("id")},
        oi \in {Undefined, Str("x")}, os \in {Undefined, Str("x")},
        di \in {Undefined, Str("x")}, ds \in {Undefined, Str("x")}}

AuthInit ==
    /\ variant \in Variants
    /\ env \in AuthEnvs
    /\ FeatIdle
    /\ CronIdle
    /\ prisma = "null"
    /\ dbExport = "unloaded"
    /\ clientsCreated = 0
    /\ canConstruct \in BOOLEAN
    /\ dbServer = "up"
    /\ redisServer = "up"
    /\ HealthIdle
    /\ CacheIdle
    /\ AuthIdle
    /\ ConnIdle
    /\ DbCallIdle

AuthNext ==
    \/ LoadFeatures \/ LoadEnv \/ ImportDb
    \/ LoadAuthRoute \/ AuthGet \/ AuthPost
    \/ LoadDashboardPage \/ LoadSignInPage

SpecAuth == AuthInit /\ [][AuthNext]_vars

\* C11: while the auth capability is false the authentication subsystem is
\* never constructed: the auth route answers GET and POST with the fixed 404
\* 'Authentication not configured', lib/auth/config is never evaluated and
\* NextAuth(authConfig) is never called, whichever module was loaded.
C11_AuthNeverConstructed ==
    (loaded /\ ~Features(variant, features, env).auth) =>
        /\ authRoute \in {"unloaded", "notConfigured"}
        /\ authResp.status # 0 =>
              (authResp.status = 404 /\ authResp.body = "Authentication not configured")
        /\ authConfig.state = "unloaded"
        /\ nextAuthCalls = 0

\* C12: the provider list of a constructed authConfig names the enabled
\* providers, each once, in the order of getEnabledProviders(), and every
\* configuration in it carries a non-empty clientId and clientSecret, those
\* of its provider in the environment.
CredentialNames(id) ==
    CASE id = "github"  -> [idName |-> "GITHUB_ID", secretName |-> "GITHUB_SECRET"]
      [] id = "google"  -> [idName |-> "GOOGLE_ID", secretName |-> "GOOGLE_SECRET"]
      [] id = "discord" -> [idName |-> "DISCORD_ID", secretName |-> "DISCORD_SECRET"]

C12_ProvidersRegistered ==
    authConfig.state = "loaded" =>
        LET ps == authConfig.providers IN
        /\ [i \in 1..Len(ps) |-> ps[i].id] =
              getEnabledProviders(Features(variant, features, env))
        /\ \A i \in 1..Len(ps) :
              /\ NonEmpty(ps[i].clientId)
              /\ NonEmpty(ps[i].clientSecret)
              /\ ps[i].clientId = env[CredentialNames(ps[i].id).idName]
              /\ ps[i].clientSecret = env[CredentialNames(ps[i].id).secretName]

\* google and discord registered, github left out because its secret is empty
C12_Witness ==
    /\ authConfig.state = "loaded"
    /\ Len(authConfig.providers) = 2
    /\ authConfig.providers[1].id = "google"
    /\ authConfig.providers[2].id = "discord"
    /\ env["GITHUB_ID"] = Str("id")
    /\ env["GITHUB_SECRET"] = Str("")

\* C13: in a constructed authConfig the session strategy is 'database'
\* exactly when an adapter is attached and 'jwt' exactly when none is.
C13_StrategyMatchesAdapter ==
    authConfig.state = "loaded" =>
        /\ authConfig.strategy \in {"database", "jwt"}
        /\ (authConfig.strategy = "database") <=> authConfig.adapter
        /\ (authConfig.strategy = "jwt") <=> ~authConfig.adapter

-----------------------------------------------------------------------------
(* The connection of the cache client. new Redis(url, options) starts       *)
(* connecting at once. When the socket closes, the client calls             *)
(* retryStrategy(++retryAttempts): a number is the delay before it connects *)
(* again, anything else ends the client for good. A socket error is emitted *)
(* as 'error' before the close; a connection the peer closes emits 'close'  *)
(* and no 'error'. The handler listens to 'connect' and 'error' only.       *)
(* attempts and delays record the reconnects and their delays since the     *)
(* construction or since the last established connection was lost.          *)

\* the client's close handler: ask retryStrategy whether to connect again
afterClose(n) ==
    LET r == retryStrategy(n)
    IN [conn |-> IF r.retry THEN "reconnecting" ELSE "end",
        delay |-> IF r.retry THEN <<r.delay>> ELSE <<>>]

\* a connection attempt reaches the backend: 'connect' is emitted
SocketConnects ==
    /\ conn = "connecting"
    /\ redisServer = "up"
    /\ OnConnect

\* a connection attempt fails: 'error' is emitted, then the socket closes
SocketFails ==
    /\ constructed
    /\ conn = "connecting"
    /\ redisServer = "down"
    /\ redisEnabled' = errorListener(redisEnabled)
    /\ lastEvent' = "error"
    /\ LET c == afterClose(retryAttempts + 1)
       IN /\ conn' = c.conn
          /\ delays' = delays \o c.delay
    /\ retryAttempts' = retryAttempts + 1
    /\ rt' = RtNone
    /\ UNCHANGED attempts
    /\ UNCHANGED <<dbCallVars, authVars, env, variant, featVars, cronVars, dbVars, healthVars>>
    /\ UNCHANGED <<constructed, redis, store, wire, call, res, tagVars>>

\* an established connection is lost: with a socket error ('error' is emitted
\* first), or closed by the peer (no 'error' event)
ConnectionLost(withError) ==
    /\ constructed
    /\ conn = "ready"
    /\ IF withError
       THEN /\ redisEnabled' = errorListener(redisEnabled)
            /\ lastEvent' = "error"
       ELSE UNCHANGED <<redisEnabled, lastEvent>>
    /\ LET c == afterClose(retryAttempts + 1)
       IN /\ conn' = c.conn
          /\ delays' = c.delay
    /\ retryAttempts' = retryAttempts + 1
    /\ attempts' = 0
    /\ rt' = RtNone
    /\ UNCHANGED <<dbCallVars, authVars, env, variant, featVars, cronVars, dbVars, healthVars>>
    /\ UNCHANGED <<constructed, redis, store, wire, call, res, tagVars>>

\* the delay retryStrategy returned is over: the client connects again
Reconnect ==
    /\ constructed
    /\ conn = "reconnecting"
    /\ conn' = "connecting"
    /\ attempts' = attempts + 1
    /\ rt' = RtNone
    /\ UNCHANGED <<retryAttempts, delays, lastEvent>>
    /\ UNCHANGED <<dbCallVars, authVars, env, variant, featVars, cronVars, dbVars, healthVars>>
    /\ UNCHANGED <<constructed, redis, redisEnabled, store, wire, call, res, tagVars>>

\* the backend becomes unreachable, or reachable again
BackendChanges ==
    /\ redisServer' = IF redisServer = "up" THEN "down" ELSE "up"
    /\ UNCHANGED <<prisma, dbExport, canConstruct, clientsCreated, dbServer>>
    /\ UNCHANGED <<connVars, dbCallVars, authVars, env, variant, featVars, cronVars, healthVars>>
    /\ UNCHANGED cacheVars

ConnInit ==
    /\ variant = "getter"
    /\ env = [BaseEnv EXCEPT !["REDIS_URL"] = Str("redis://r")]
    /\ FeatIdle
    /\ CronIdle
    /\ prisma = "null"
    /\ dbExport = "unloaded"
    /\ canConstruct = TRUE
    /\ clientsCreated = 0
    /\ dbServer = "up"
    /\ redisServer \in {"up", "down"}
    /\ HealthIdle
    /\ CacheIdle
    /\ AuthIdle
    /\ ConnIdle
    /\ DbCallIdle

ConnNext ==
    \/ Construct
    \/ SocketConnects
    \/ SocketFails
    \/ \E withError \in BOOLEAN : ConnectionLost(withError)
    \/ Reconnect
    \/ BackendChanges
    \/ CallGet(1, "k") \/ CallSet(1, "k", JsNull, NoContext, {})
    \/ CallRevalidateTag(1, "t") \/ CallDelete(1, "k")
    \/ ReplyOk \/ ReplyError

\* the reconnect timer fires, and an attempt at a reachable backend connects
SpecConn ==
    ConnInit /\ [][ConnNext]_vars /\ WF_vars(Reconnect) /\ WF_vars(SocketConnects)

\* C23: reconnection is bounded. Counted from the construction or from the
\* loss of an established connection, the client makes at most 3 reconnect
\* attempts; once retryStrategy has given up the client stays ended and makes
\* no further attempt; and no get, set, revalidateTag or delete call, nor a
\* reply to one, starts a reconnect.
C23_BoundedReconnect ==
    [][/\ attempts' <= 3
       /\ conn = "end" => (conn' = "end" /\ attempts' = attempts)
       /\ (call' # call \/ res' # res) =>
              (conn' = conn /\ attempts' = attempts /\ retryAttempts' = retryAttempts)]_vars

C23_Witness ==
    /\ conn = "end"
    /\ attempts = 3
    /\ retryAttempts = 4
    /\ res.op = "get"
    /\ ~res.available

\* C24: the delays before successive reconnect attempts grow exponentially:
\* they never exceed 3000 ms, never decrease, and below the cap successive
\* delays stand in a constant ratio greater than one.
C24_ExponentialBackoff ==
    \A i \in 1..Len(delays) :
        /\ delays[i] <= 3000
        /\ i > 1 => delays[i] >= delays[i - 1]
        /\ (i > 2 /\ delays[i] < 3000) =>
               /\ delays[i] > delays[i - 1]
               /\ delays[i] * delays[i - 2] = delays[i - 1] * delays[i - 1]

\* C25: the flag is false from the construction until the first event; after
\* that it is true exactly when the most recent event is 'connect' (so a
\* 'connect' after an 'error' makes the store healthy again); and a client
\* that still tries to connect while the backend is reachable gets back to
\* healthy, unless the backend goes away again first.
C25_HealthTransitions ==
    /\ [](lastEvent = "none" => ~redisEnabled)
    /\ [](lastEvent # "none" => (redisEnabled <=> lastEvent = "connect"))
    /\ (conn \in {"connecting", "reconnecting"} /\ redisServer = "up")
           ~> (redisEnabled \/ redisServer = "down")

C25_Witness ==
    /\ redisEnabled
    /\ lastEvent = "connect"
    /\ conn = "ready"
    /\ attempts = 2
    /\ Len(delays) = 2

\* C27: whenever redisEnabled is true the connection is established: the
\* flag is cleared on every way a connection can be lost.
C27_EnabledMeansConnected ==
    redisEnabled => conn = "ready"

-----------------------------------------------------------------------------
(* Two requests use the handler at the same time. Each runs up to its await, *)
(* its command joins the client's queue, and the events of the client and   *)
(* the replies to either request arrive in any order. The backend answers   *)
(* every command it is given. inval.missed records, when a revalidateTag    *)
(* returns, the entries that matched its tag when its del ran and were not  *)
(* among the keys it deleted.                                               *)

\* the tag of the concurrent invalidation: it matches both keys
ConcTag == "k"

ConcInit ==
    /\ variant = "getter"
    /\ env = [BaseEnv EXCEPT !["REDIS_URL"] = Str("redis://r")]
    /\ FeatIdle
    /\ CronIdle
    /\ prisma = "null"
    /\ dbExport = "unloaded"
    /\ canConstruct = TRUE
    /\ clientsCreated = 0
    /\ dbServer = "up"
    /\ redisServer \in {"up", "hang"}
    /\ HealthIdle
    /\ CacheIdle
    /\ AuthIdle
    /\ ConnIdle
    /\ DbCallIdle

ConcValues == {JsNull, PageEntry, JsBigInt}

ConcNext ==
    \/ Construct \/ OnConnect \/ OnError
    \/ \E p \in Procs : CallGet(p, "k")
    \/ \E p \in Procs, k \in Keys, v \in ConcValues : CallSet(p, k, v, NoContext, {})
    \/ \E p \in Procs : CallRevalidateTag(p, ConcTag)
    \/ \E p \in Procs : CallDelete(p, "k")
    \/ ReplyOk \/ ReplyError

\* a backend that is up answers every command it was given, in the order they
\* were queued; a backend that accepted the connection and went silent
\* answers none, and the handler sets no timeout on a command
SpecConc ==
    ConcInit /\ [][ConcNext]_vars /\ WF_vars(ReplyError \/ ReplyOk)

\* C26: under every interleaving of the 'connect' and 'error' callbacks with
\* the operations of two concurrent requests, every call completes, with the
\* documented result (null from a get that failed or did not run, undefined
\* from set, revalidateTag and delete) and without an exception, and the
\* flag is the one the latest callback set.
C26_ConcurrentCalls ==
    /\ [](res.op # "none" =>
            /\ ~res.raised
            /\ (res.op = "get" /\ (res.failure # "none" \/ ~res.available)) => res.ret = JsNull
            /\ res.op # "get" => res.ret = JsUndef)
    /\ [](lastEvent # "none" => (redisEnabled = (lastEvent = "connect")))
    /\ \A p \in Procs : (call[p].op # "idle") ~> (call[p].op = "idle")

\* C28: an entry that matches the tag and was stored before the del of a
\* revalidateTag ran does not survive that revalidateTag: when the call has
\* returned, every such entry is gone, also one that a concurrent set stored
\* between the enumeration of the keys and the del.
C28_AtomicInvalidation ==
    inval.tag # "" => inval.missed = {}

====
